---- MODULE Spec2Model ----
(***************************************************************************)
(* Control plane of the Equilibrium remote controller:                     *)
(* RemoteController/RemoteController.py (command dispatcher, scene state   *)
(* machine, keymap and input router) over a small store of commands,       *)
(* macros and scenes.                                                      *)
(*                                                                         *)
(* One action per public coroutine of RemoteController.  A coroutine is    *)
(* run to its end (or to the exception that leaves it); everything it      *)
(* publishes, dispatches and emits on the way is appended, in program      *)
(* order, to `trace`, which holds the events of the last call.             *)
(***************************************************************************)
EXTENDS Integers, Sequences, FiniteSets, TLC

VARIABLES status, keymap, bt_peer, trace, exc, last, again, queue,
          held, running, http, rf

(* The pairing agent of BluetoothManager (agents/SecurePairingAgent.py)    *)
(* and the remote HID service (services/hid/RemoteHidService.py).          *)
VARIABLES pending_confirmations, calls, reply, cancelled,
          pressed_buttons, notified, clicking, down, hid_last

rc_vars == <<status, keymap, bt_peer, trace, exc, last, again, queue,
             held, running, http, rf>>

agent_vars == <<pending_confirmations, calls, reply, cancelled>>

hid_vars == <<pressed_buttons, notified, clicking, down, hid_last>>

(* The state of the other components.                                      *)

(* BluetoothManager: advertisement, BlueZ's peers and the monitor.         *)
VARIABLES active_profile, active_advertisement, live, bluez_devices,
          known_devices

(* connect(address, timeout) of BleKeyboard and of BluetoothManager.       *)
VARIABLES connecting, elapsed, peer_connected

(* RemoteController.record_ir_command: sessions, recorder and the store.   *)
VARIABLES sessions, recorder, persisted

(* RfManager._start_listening: the last key, the payloads read and the callbacks made.*)
VARIABLES last_key, payloads, delivered

(* Api/routers/commands.py create_command: the Command rows and the last response.*)
VARIABLES db_commands, response

(* IrProtocolDetector / IrCodeDecoder: the frame captured and what was made of it.*)
VARIABLES ir_frame, ir_code, detected, decoded

(* HaManager: the light set last, the operations made and the HTTP calls issued.*)
VARIABLES last_light_id, ha_ops, ha_calls, ha_raised

(* RemoteController.cached_commands and the last operation on it.          *)
VARIABLES cached_commands, cache_last

(* BleKeyboard: the keys held, the reports notified last and the send_key calls asleep.*)
VARIABLES kb_pressed_keys, kb_pressed_media_keys, report1, report2,
          kb_sleeping, kb_last

(* BleKeyboard: the monitor task, the agent, the advertisement and the scene's peer.*)
VARIABLES kb_monitor_task, kb_agent, kb_advertisement, kb_services,
          kb_peer, kb_swapped, mon_last

(* The buttons whose tasks wait in the queue and the button of the task run last.*)
VARIABLES queue_buttons, ran_button

(* PairingAgentBase with callbacks that overlap: the waits, the futures kept and the last confirm.*)
VARIABLES waiters, kept_future, confirm_reply, overlapped

(* BluetoothManager.advertise calls in flight: the advertisements BlueZ holds, the one the manager refers to, the calls.*)
VARIABLES registered_ads, active_ad, adv_calls, made_ads

adv_vars == <<active_profile, active_advertisement, live, bluez_devices,
              known_devices>>

conn_vars == <<connecting, elapsed, peer_connected>>

rec_vars == <<sessions, recorder, persisted>>

rfl_vars == <<last_key, payloads, delivered>>

cmd_vars == <<db_commands, response>>

ir_vars == <<ir_frame, ir_code, detected, decoded>>

ha_vars == <<last_light_id, ha_ops, ha_calls, ha_raised>>

cache_vars == <<cached_commands, cache_last>>

kbd_vars == <<kb_pressed_keys, kb_pressed_media_keys, report1, report2,
              kb_sleeping, kb_last>>

mon_vars == <<kb_monitor_task, kb_agent, kb_advertisement, kb_services,
              kb_peer, kb_swapped, mon_last>>

press_vars == <<queue_buttons, ran_button>>

ovl_vars == <<waiters, kept_future, confirm_reply, overlapped>>

reg_vars == <<registered_ads, active_ad, adv_calls, made_ads>>

ext_vars == <<adv_vars, conn_vars, rec_vars, rfl_vars, cmd_vars, ir_vars,
              ha_vars, cache_vars, kbd_vars, mon_vars, press_vars,
              ovl_vars, reg_vars>>

not_adv == <<rc_vars, agent_vars, hid_vars, conn_vars, rec_vars, rfl_vars,
             cmd_vars, ir_vars, ha_vars, cache_vars, kbd_vars, mon_vars,
             press_vars, ovl_vars, reg_vars>>

not_conn == <<rc_vars, agent_vars, hid_vars, adv_vars, rec_vars, rfl_vars,
              cmd_vars, ir_vars, ha_vars, cache_vars, kbd_vars, mon_vars,
              press_vars, ovl_vars, reg_vars>>

not_rec == <<rc_vars, agent_vars, hid_vars, adv_vars, conn_vars, rfl_vars,
             cmd_vars, ir_vars, ha_vars, cache_vars, kbd_vars, mon_vars,
             press_vars, ovl_vars, reg_vars>>

not_rfl == <<rc_vars, agent_vars, hid_vars, adv_vars, conn_vars, rec_vars,
             cmd_vars, ir_vars, ha_vars, cache_vars, kbd_vars, mon_vars,
             press_vars, ovl_vars, reg_vars>>

not_cmd == <<rc_vars, agent_vars, hid_vars, adv_vars, conn_vars, rec_vars,
             rfl_vars, ir_vars, ha_vars, cache_vars, kbd_vars, mon_vars,
             press_vars, ovl_vars, reg_vars>>

not_ir == <<rc_vars, agent_vars, hid_vars, adv_vars, conn_vars, rec_vars,
            rfl_vars, cmd_vars, ha_vars, cache_vars, kbd_vars, mon_vars,
            press_vars, ovl_vars, reg_vars>>

not_ha == <<rc_vars, agent_vars, hid_vars, adv_vars, conn_vars, rec_vars,
            rfl_vars, cmd_vars, ir_vars, cache_vars, kbd_vars, mon_vars,
            press_vars, ovl_vars, reg_vars>>

not_cache == <<rc_vars, agent_vars, hid_vars, adv_vars, conn_vars,
               rec_vars, rfl_vars, cmd_vars, ir_vars, ha_vars, kbd_vars,
               mon_vars, press_vars, ovl_vars, reg_vars>>

not_kbd == <<rc_vars, agent_vars, hid_vars, adv_vars, conn_vars, rec_vars,
             rfl_vars, cmd_vars, ir_vars, ha_vars, cache_vars, mon_vars,
             press_vars, ovl_vars, reg_vars>>

not_mon == <<rc_vars, agent_vars, hid_vars, adv_vars, conn_vars, rec_vars,
             rfl_vars, cmd_vars, ir_vars, ha_vars, cache_vars, kbd_vars,
             press_vars, ovl_vars, reg_vars>>

not_press == <<rc_vars, agent_vars, hid_vars, adv_vars, conn_vars,
               rec_vars, rfl_vars, cmd_vars, ir_vars, ha_vars, cache_vars,
               kbd_vars, mon_vars, ovl_vars, reg_vars>>

not_ovl == <<rc_vars, agent_vars, hid_vars, adv_vars, conn_vars, rec_vars,
             rfl_vars, cmd_vars, ir_vars, ha_vars, cache_vars, kbd_vars,
             mon_vars, press_vars, reg_vars>>

not_reg == <<rc_vars, agent_vars, hid_vars, adv_vars, conn_vars, rec_vars,
             rfl_vars, cmd_vars, ir_vars, ha_vars, cache_vars, kbd_vars,
             mon_vars, press_vars, ovl_vars>>

vars == <<rc_vars, agent_vars, hid_vars, ext_vars>>

----------------------------------------------------------------------------
(* Python's None for ids and names, and for optional booleans.             *)
None == 0
NoName == ""
NoStatus == "null"
Nothing == <<>>
Some(b) == <<b>>

(* RemoteController.create sets is_dev = False.                            *)
is_dev == FALSE

----------------------------------------------------------------------------
(* The store.  Commands as POST /commands and the IR recorder persist      *)
(* them: button and command_group are independent fields, every type but   *)
(* SCRIPT carries its payload.                                             *)
Devices == {1, 2}

Cmd(i, d, b, g, t) ==
    [id |-> i, device_id |-> d, button |-> b, command_group |-> g,
     type |-> t, action |-> TRUE]

CommandTable ==
    <<Cmd(1, 1, "POWER_ON", "POWER", "IR"),           \* powerOnTV
      Cmd(2, 1, "OTHER", "INPUT", "IR"),              \* selectInput
      Cmd(3, 1, "POWER_OFF", "POWER", "IR"),          \* powerOffTV
      Cmd(4, 2, "POWER_OFF", "POWER", "IR"),          \* powerOffAmp
      Cmd(5, 2, "POWER_TOGGLE", "POWER", "IR"),       \* toggleAmp
      Cmd(6, 2, "POWER_ON", "POWER", "IR"),           \* powerOnAmp
      Cmd(7, 2, "POWER_ON", "POWER", "SCRIPT"),       \* script command
      Cmd(8, 2, "VOLUME_UP", "VOLUME", "BLUETOOTH"),  \* volumeUp
      Cmd(9, 2, "POWER_OFF", "INPUT", "IR"),          \* input command on a power button
      Cmd(10, None, "POWER_OFF", "POWER", "NETWORK"), \* command without a device
      Cmd(11, 1, "POWER_TOGGLE", "INPUT", "IR"),      \* input command on the toggle button
      Cmd(12, 1, "POWER_OFF", "POWER", "SCRIPT"),     \* script command that powers off
      Cmd(13, None, "OTHER", "NAVIGATION", "BLUETOOTH") \* select key
    >>

(* The BLUETOOTH commands whose payload is bt_media_action (a consumer     *)
(* control key) and not bt_action (a keyboard key).                        *)
BtMediaCommands == {i \in 1..Len(CommandTable) :
                       CommandTable[i].command_group = "VOLUME"}

CommandIds == 1..Len(CommandTable)
UnknownCommand == Len(CommandTable) + 1

(* session.get(Command, id): the row exists / the row.                     *)
CommandExists(i) == i \in CommandIds
GetCommand(i) == CommandTable[i]

Macro(ids) == [command_ids |-> ids, delays |-> [k \in 1..Len(ids) |-> 0]]

MacroTable ==
    <<Macro(<<5, 6>>),                \* 1: A.start
      Macro(<<3, 4>>),                \* 2: A.stop
      Macro(<<1, 2>>),                \* 3: B.start
      Macro(<<5, UnknownCommand, 8, 4, 3, 10>>), \* 4: B.stop
      Macro(<<3>>),                   \* 5: C.stop
      Macro(<<1, 7, 2>>),             \* 6: D.start
      Macro(<<4, 12, 3>>),            \* 7: D.stop
      Macro(<<5>>)                    \* 8: E.start
    >>

Scn(i, bt, km, sm, tm) ==
    [id |-> i, bluetooth_address |-> bt, keymap |-> km,
     start_macro |-> sm, stop_macro |-> tm]

SceneTable ==
    <<Scn(1, NoName, NoName, 1, 2),      \* A
      Scn(2, "AA", "b", 3, 4),           \* B
      Scn(3, "CC", NoName, None, 5),     \* C: no start macro
      Scn(4, NoName, NoName, 6, 7),      \* D: a macro with a failing step
      Scn(5, NoName, NoName, 8, None)    \* E: a toggle to start, no stop macro
    >>

SceneIds == 1..Len(SceneTable)
UnknownScene == Len(SceneTable) + 1

(* session.get(Scene, id): the row exists / the row.                       *)
SceneExists(i) == i \in SceneIds
GetScene(i) == SceneTable[i]

(* Macro.commands: the Command rows the macro is related to.               *)
MacroCommands(m) ==
    LET ids == SelectSeq(m.command_ids, CommandExists)
    IN [k \in 1..Len(ids) |-> GetCommand(ids[k])]

(* config/keymap_{name}.json and config/keymap_scenes.json                 *)
KeymapFile(name) ==
    IF name = "b" THEN [B |-> 2, Play |-> 1, Vol |-> 8, Ok |-> 13]
    ELSE [Off |-> 8, Play |-> None, Vol |-> 8, Ok |-> 13]

KeymapScenes == [A |-> 1, B |-> 2, D |-> 4]

(* The buttons of the remote that the RF listener reports.                 *)
Buttons == {"Off", "A", "B", "D", "Play", "Vol", "Ok", "Mute"}

(* dict.get                                                                *)
Get(f, k) == IF k \in DOMAIN f THEN f[k] ELSE None

(* The longest task queue explored.                                        *)
MaxQueue == 2

----------------------------------------------------------------------------
(* Events of the trace.                                                    *)
Ev(e, i, a) == [ev |-> e, id |-> i, arg |-> a]

Log(c, e) == [c EXCEPT !.trace = Append(@, e)]
Raise(c, e) == [c EXCEPT !.exc = e]
Ok(c) == c.exc = "none"

----------------------------------------------------------------------------
(* Api/models/Status.py: DeviceStates.state / DeviceStates.set_state.      *)
DefaultDeviceState == [powered |-> FALSE, input |-> None]

state(devices, for_device_id) == devices[for_device_id]

set_state(devices, device_id, new_power_state, new_input, toggle_power) ==
    LET cur == state(devices, device_id)
        pw == IF toggle_power = Some(TRUE) THEN ~cur.powered
              ELSE IF new_power_state # Nothing THEN new_power_state[1]
              ELSE cur.powered
        inp == IF new_input # None THEN new_input ELSE cur.input
    IN [devices EXCEPT ![device_id] = [powered |-> pw, input |-> inp]]

----------------------------------------------------------------------------
(* A variant that calls the status callback before set_state.             *)
update_device_status_stale(c, device_id, new_power_state, new_input, toggle_power) ==
    LET devs == set_state(c.status.devices, device_id, new_power_state,
                          new_input, toggle_power)
        c1 == [c EXCEPT !.status.devices = devs]
    IN Log(c1, Ev("device", device_id,
                  IF c.status.devices[device_id].powered THEN "on" ELSE "off"))

(* RemoteController.update_device_status: set_state, then the status       *)
(* callback with the Status it left.                                       *)
update_device_status(c, device_id, new_power_state, new_input, toggle_power) ==
    LET devs == set_state(c.status.devices, device_id, new_power_state,
                          new_input, toggle_power)
        c1 == [c EXCEPT !.status.devices = devs]
    IN Log(c1, Ev("device", device_id,
                  IF devs[device_id].powered THEN "on" ELSE "off"))

(* RemoteController._update_current_scene_status                           *)
update_current_scene_status(c, new_scene_state) ==
    LET c1 == [c EXCEPT !.status.scene_status = new_scene_state]
    IN Log(c1, Ev("status", c1.status.current_scene, new_scene_state))

(* A variant that forgets the scene_status assignment.                     *)
update_current_scene_keeps_status(c, new_scene, new_scene_state) ==
    LET c1 == [c EXCEPT !.status.current_scene = new_scene]
    IN Log(c1, Ev("status", new_scene, c1.status.scene_status))

(* RemoteController._update_current_scene                                  *)
update_current_scene(c, new_scene, new_scene_state) ==
    LET c1 == [c EXCEPT !.status.current_scene = new_scene,
                        !.status.scene_status = new_scene_state]
    IN Log(c1, Ev("status", new_scene, new_scene_state))

(* A variant whose POWER_OFF case was copied from POWER_ON.                 *)
set_state_for_command_off_as_on(c, command) ==
    IF command.device_id = None THEN c
    ELSE LET d == command.device_id
             c1 == IF command.command_group = "INPUT"
                   THEN update_device_status(c, d, Some(TRUE), command.id, Nothing)
                   ELSE c
         IN CASE command.button = "POWER_ON" ->
                     update_device_status(c1, d, Some(TRUE), None, Nothing)
              [] command.button = "POWER_OFF" ->
                     update_device_status(c1, d, Some(TRUE), None, Nothing)
              [] command.button = "POWER_TOGGLE" ->
                     update_device_status(c1, d, Nothing, None, Some(TRUE))
              [] OTHER -> c1

(* RemoteController.set_state_for_command                                  *)
set_state_for_command(c, command) ==
    IF command.device_id = None THEN c
    ELSE LET d == command.device_id
             c1 == IF command.command_group = "INPUT"
                   THEN update_device_status(c, d, Some(TRUE), command.id, Nothing)
                   ELSE c
         IN CASE command.button = "POWER_ON" ->
                     update_device_status(c1, d, Some(TRUE), None, Nothing)
              [] command.button = "POWER_OFF" ->
                     update_device_status(c1, d, Some(FALSE), None, Nothing)
              [] command.button = "POWER_TOGGLE" ->
                     update_device_status(c1, d, Nothing, None, Some(TRUE))
              [] OTHER -> c1

----------------------------------------------------------------------------
(* A variant without the "already powered on" test of from_start.         *)
suppressed_no_power_on_test(devices, command, from_start, from_stop) ==
    \/ /\ from_start
       /\ command.device_id # None
       /\ command.command_group = "INPUT"
       /\ state(devices, command.device_id).input = command.id
    \/ /\ from_stop
       /\ command.device_id # None
       /\ command.button \in {"POWER_OFF", "POWER_TOGGLE"}
       /\ ~state(devices, command.device_id).powered

(* A variant whose from_stop test looks for a device that is still on.     *)
suppressed_stop_inverted(devices, command, from_start, from_stop) ==
    \/ /\ from_start
       /\ command.device_id # None
       /\ \/ /\ command.button \in {"POWER_ON", "POWER_TOGGLE"}
             /\ state(devices, command.device_id).powered
          \/ /\ command.command_group = "INPUT"
             /\ state(devices, command.device_id).input = command.id
    \/ /\ from_stop
       /\ command.device_id # None
       /\ command.button \in {"POWER_OFF", "POWER_TOGGLE"}
       /\ state(devices, command.device_id).powered

(* send_db_command, lines 153-166: the redundancy suppression.             *)
suppressed(devices, command, from_start, from_stop) ==
    \/ /\ from_start
       /\ command.device_id # None
       /\ \/ /\ command.button \in {"POWER_ON", "POWER_TOGGLE"}
             /\ state(devices, command.device_id).powered
          \/ /\ command.command_group = "INPUT"
             /\ state(devices, command.device_id).input = command.id
    \/ /\ from_stop
       /\ command.device_id # None
       /\ command.button \in {"POWER_OFF", "POWER_TOGGLE"}
       /\ ~state(devices, command.device_id).powered

(* send_ir_command / send_bt_command / send_network_command /              *)
(* send_script_command / send_integration_command: what the call does.     *)
ha_manager == None

transport(command) ==
    CASE command.type = "IR" ->
            IF is_dev THEN "noop" ELSE IF command.action THEN "sent" ELSE "raise"
      [] command.type = "BLUETOOTH" ->
            IF is_dev THEN "noop" ELSE IF command.action THEN "sent" ELSE "raise"
      [] command.type = "NETWORK" ->
            IF command.action THEN "sent" ELSE "raise"
      [] command.type = "SCRIPT" -> "raise"
      [] command.type = "INTEGRATION" ->
            IF ha_manager = None THEN "noop" ELSE "sent"
      [] OTHER -> "noop"

(* What the transmitter and the two HID reports hold.                      *)
NoneHeld == [ir |-> FALSE, keys |-> FALSE, media |-> FALSE]

(* send_ir_command / send_bt_command, once the transport has sent: the     *)
(* held state they leave.  send_and_repeat leaves the IR repeat running;   *)
(* press_key / press_media_key leave the report set, send_key /            *)
(* send_media_key release it after their delay.                            *)
hold(h, command, press_without_release) ==
    CASE command.type = "IR" ->
            [h EXCEPT !.ir = IF press_without_release THEN TRUE ELSE @]
      [] command.type = "BLUETOOTH" ->
            IF command.id \in BtMediaCommands
            THEN [h EXCEPT !.media = press_without_release]
            ELSE [h EXCEPT !.keys = press_without_release]
      [] OTHER -> h

(* RemoteController._release_all                                           *)
release_all(h) == [h EXCEPT !.ir = FALSE, !.keys = FALSE, !.media = FALSE]

Mode(from_start, from_stop) ==
    IF from_start THEN "start" ELSE IF from_stop THEN "stop" ELSE "plain"

(* A variant that records the command in DeviceState after every           *)
(* dispatch, whatever from_start and from_stop are.                        *)
send_db_command_sets_state(c, command, press_without_release, from_start, from_stop) ==
    LET c0 == Log(c, Ev("dispatch", command.id, Mode(from_start, from_stop)))
    IN IF suppressed(c0.status.devices, command, from_start, from_stop)
       THEN Log(c0, Ev("skip", command.id, command.type))
       ELSE LET r == transport(command)
            IN IF r = "raise"
               THEN Raise(Log(c0, Ev("raise", command.id, command.type)),
                          "HTTPException")
               ELSE LET c1 == IF r = "sent"
                              THEN [Log(c0, Ev("emit", command.id, command.type))
                                      EXCEPT !.held = hold(@, command,
                                                 press_without_release)]
                              ELSE c0
                    IN set_state_for_command(c1, command)

(* RemoteController.send_db_command                                        *)
send_db_command(c, command, press_without_release, from_start, from_stop) ==
    LET c0 == Log(c, Ev("dispatch", command.id, Mode(from_start, from_stop)))
    IN IF suppressed(c0.status.devices, command, from_start, from_stop)
       THEN Log(c0, Ev("skip", command.id, command.type))
       ELSE LET r == transport(command)
            IN IF r = "raise"
               THEN Raise(Log(c0, Ev("raise", command.id, command.type)),
                          "HTTPException")
               ELSE LET c1 == IF r = "sent"
                              THEN [Log(c0, Ev("emit", command.id, command.type))
                                      EXCEPT !.held = hold(@, command,
                                                 press_without_release)]
                              ELSE c0
                    IN IF from_start \/ from_stop
                       THEN set_state_for_command(c1, command)
                       ELSE c1

(* RemoteController.send_command: the command comes from cached_commands   *)
(* or, read through, from the store; the store does not change, so both    *)
(* give the same row, and an id the store does not know is only logged.    *)
send_command(c, command_id, press_without_release, from_start, from_stop) ==
    IF CommandExists(command_id)
    THEN send_db_command(c, GetCommand(command_id), press_without_release,
                         from_start, from_stop)
    ELSE Log(c, Ev("unknown", command_id, Mode(from_start, from_stop)))

(* A variant of execute_macro that dispatches every step against the       *)
(* DeviceState found at the entry of the macro.                            *)
RECURSIVE macro_steps_stale(_, _, _, _, _)
macro_steps_stale(c, command_ids, k, from_start, from_stop) ==
    IF k > Len(command_ids) \/ ~Ok(c) THEN c
    ELSE LET c1 == send_command(c, command_ids[k], FALSE, from_start, from_stop)
         IN macro_steps_stale([c1 EXCEPT !.status.devices = c.status.devices],
                              command_ids, k + 1, from_start, from_stop)

(* RemoteController.execute_macro: the loop from step k on.                *)
RECURSIVE macro_steps(_, _, _, _, _)
macro_steps(c, command_ids, k, from_start, from_stop) ==
    IF k > Len(command_ids) \/ ~Ok(c) THEN c
    ELSE macro_steps(send_command(c, command_ids[k], FALSE, from_start, from_stop),
                     command_ids, k + 1, from_start, from_stop)

execute_macro(c, macro, from_start, from_stop) ==
    macro_steps(c, macro.command_ids, 1, from_start, from_stop)

(* RemoteController.load_key_map                                           *)
load_key_map(c, keymap_name) ==
    Log([c EXCEPT !.keymap = keymap_name], Ev("keymap", 0, keymap_name))

----------------------------------------------------------------------------
(* BleKeyboard.connect / BleKeyboard.disconnect as the scene code uses     *)
(* them: connect ends connected when the peer answers in time (c.reach).   *)
ble_connect(c, address) ==
    Log([c EXCEPT !.bt_peer = IF c.reach THEN address ELSE @],
        Ev("bt_connect", 0, address))

ble_disconnect(c, address) ==
    Log([c EXCEPT !.bt_peer = IF @ = address THEN NoName ELSE @],
        Ev("bt_disconnect", 0, address))

(* The Bluetooth peer swap of start_scene and set_current_scene.           *)
swap_peer(c, address) ==
    Log(ble_connect(Log(c, Ev("bt_unregister", 0, address)), address),
        Ev("bt_register", 0, address))

(* stop_current_scene, lines 439-440: which stop-macro steps are sent.     *)
stop_filter(command, skip_power_down_for) ==
    /\ command.device_id = None \/ command.device_id \notin skip_power_down_for
    /\ command.button \in {"POWER_TOGGLE", "POWER_OFF"}

(* stop_current_scene, lines 436-443: the loop from step k on.             *)
RECURSIVE stop_steps(_, _, _, _)
stop_steps(c, command_ids, k, skip_power_down_for) ==
    IF k > Len(command_ids) \/ ~Ok(c) THEN c
    ELSE LET command_id == command_ids[k]
             send == /\ CommandExists(command_id)
                     /\ stop_filter(GetCommand(command_id), skip_power_down_for)
             c1 == IF send THEN send_command(c, command_id, FALSE, FALSE, TRUE)
                   ELSE c
         IN stop_steps(c1, command_ids, k + 1, skip_power_down_for)

(* RemoteController.stop_current_scene                                     *)
stop_current_scene(c, skip_power_down_for) ==
    IF c.status.current_scene = None THEN Raise(c, "AttributeError")
    ELSE LET scene_id == c.status.current_scene
             c1 == load_key_map(c, "default")
         IN IF ~SceneExists(scene_id) THEN Raise(c1, "HTTPException")
            ELSE LET scene_db == GetScene(scene_id)
                     c2 == update_current_scene_status(c1, "STOPPING")
                     c3 == IF scene_db.bluetooth_address # NoName /\ ~is_dev
                           THEN ble_disconnect(c2, scene_db.bluetooth_address)
                           ELSE c2
                     c4 == IF scene_db.stop_macro # None
                           THEN stop_steps(c3,
                                    MacroTable[scene_db.stop_macro].command_ids,
                                    1, skip_power_down_for)
                           ELSE c3
                 IN IF Ok(c4) THEN update_current_scene(c4, None, NoStatus)
                    ELSE c4

(* A variant that collects the devices the macro powers off.               *)
skip_set_of_power_off(macro) ==
    LET cs == MacroCommands(macro)
    IN {cs[k].device_id : k \in {j \in 1..Len(cs) :
            /\ cs[j].device_id # None
            /\ cs[j].button \in {"POWER_TOGGLE", "POWER_OFF"}}}

(* start_scene, lines 334-337: the devices the new scene powers on.        *)
skip_set(macro) ==
    LET cs == MacroCommands(macro)
    IN {cs[k].device_id : k \in {j \in 1..Len(cs) :
            /\ cs[j].device_id # None
            /\ cs[j].button \in {"POWER_TOGGLE", "POWER_ON"}}}

(* start_scene, line 333: whether the previous scene is stopped first.     *)
stops_previous(previous_scene, scene_db) ==
    previous_scene # None /\ scene_db.start_macro # None

(* A variant of start_scene that publishes ACTIVE before it loads the      *)
(* keymap of the scene.                                                    *)
start_scene_active_before_keymap(c, scene_id) ==
    IF ~SceneExists(scene_id) THEN Raise(c, "HTTPException")
    ELSE LET scene_db == GetScene(scene_id)
             c1 == IF stops_previous(c.status.current_scene, scene_db)
                   THEN stop_current_scene(c,
                            skip_set(MacroTable[scene_db.start_macro]))
                   ELSE c
         IN IF ~Ok(c1) THEN c1
            ELSE LET c2 == update_current_scene(c1, scene_id, "STARTING")
                     c3 == IF scene_db.bluetooth_address # NoName /\ ~is_dev
                           THEN swap_peer(c2, scene_db.bluetooth_address)
                           ELSE c2
                     c4 == IF scene_db.start_macro # None
                           THEN execute_macro(c3, MacroTable[scene_db.start_macro],
                                              TRUE, FALSE)
                           ELSE c3
                     c5 == update_current_scene(c4, scene_id, "ACTIVE")
                 IN IF ~Ok(c4) THEN c4
                    ELSE IF scene_db.keymap # NoName
                         THEN load_key_map(c5, scene_db.keymap)
                         ELSE c5

(* RemoteController.start_scene                                            *)
start_scene(c, scene_id) ==
    IF ~SceneExists(scene_id) THEN Raise(c, "HTTPException")
    ELSE LET scene_db == GetScene(scene_id)
             c1 == IF stops_previous(c.status.current_scene, scene_db)
                   THEN stop_current_scene(c,
                            skip_set(MacroTable[scene_db.start_macro]))
                   ELSE c
         IN IF ~Ok(c1) THEN c1
            ELSE LET c2 == update_current_scene(c1, scene_id, "STARTING")
                     c3 == IF scene_db.bluetooth_address # NoName /\ ~is_dev
                           THEN swap_peer(c2, scene_db.bluetooth_address)
                           ELSE c2
                     c4 == IF scene_db.start_macro # None
                           THEN execute_macro(c3, MacroTable[scene_db.start_macro],
                                              TRUE, FALSE)
                           ELSE c3
                     c5 == IF scene_db.keymap # NoName
                           THEN load_key_map(c4, scene_db.keymap)
                           ELSE c4
                 IN IF Ok(c4) THEN update_current_scene(c5, scene_id, "ACTIVE")
                    ELSE c4

(* RemoteController.set_states_for_commands                                *)
RECURSIVE set_states_for_commands(_, _, _)
set_states_for_commands(c, commands, k) ==
    IF k > Len(commands) THEN c
    ELSE set_states_for_commands(set_state_for_command(c, commands[k]),
                                 commands, k + 1)

(* RemoteController.set_current_scene                                      *)
set_current_scene(c, scene_id) ==
    IF ~SceneExists(scene_id) THEN Raise(c, "HTTPException")
    ELSE LET scene_db == GetScene(scene_id)
             c1 == IF scene_db.bluetooth_address # NoName
                   THEN swap_peer(c, scene_db.bluetooth_address)
                   ELSE c
             previous_scene == c1.status.current_scene
             c2 == IF /\ previous_scene # None
                      /\ GetScene(previous_scene).stop_macro # None
                   THEN set_states_for_commands(c1,
                            MacroCommands(MacroTable[GetScene(previous_scene).stop_macro]), 1)
                   ELSE c1
         IN IF scene_db.start_macro = None THEN Raise(c2, "AttributeError")
            ELSE LET c3 == set_states_for_commands(c2,
                               MacroCommands(MacroTable[scene_db.start_macro]), 1)
                     c4 == update_current_scene(c3, scene_id, "ACTIVE")
                 IN IF scene_db.keymap # NoName
                    THEN load_key_map(c4, scene_db.keymap)
                    ELSE c4

----------------------------------------------------------------------------
(* The controller as one record, at the entry of a call.                   *)
Ctl(reach) ==
    [status |-> status, keymap |-> keymap, bt_peer |-> bt_peer,
     held |-> held, trace |-> <<>>, exc |-> "none", reach |-> reach]

Call(op, arg, mode) ==
    [op |-> op, arg |-> arg, mode |-> mode, via |-> "call", pre |-> status]

Queued(op, arg) ==
    [op |-> op, arg |-> arg, mode |-> "plain", via |-> "queue", pre |-> status]

Emits(t) == Len(SelectSeq(t, LAMBDA e : e.ev = "emit"))

(* The call before the last one, as far as the last call repeats it.       *)
NotAgain == [same |-> FALSE, emits |-> 0, raised |-> FALSE]

Repeats(call) ==
    IF call.op = last.op /\ call.arg = last.arg /\ call.mode = last.mode
    THEN [same |-> TRUE, emits |-> Emits(trace), raised |-> exc # "none"]
    ELSE NotAgain

Return(c, call) ==
    /\ status' = c.status
    /\ keymap' = c.keymap
    /\ bt_peer' = c.bt_peer
    /\ held' = c.held
    /\ trace' = c.trace
    /\ exc' = c.exc
    /\ last' = call
    /\ again' = Repeats(call)

(* PairingAgentBase.__init__: no confirmation is pending, no agent call    *)
(* has been made.                                                          *)
Paths == {"/org/bluez/hci0/dev_A", "/org/bluez/hci0/dev_B"}

NoCall == [method |-> "none", pc |-> "idle", future |-> "none",
           waited |-> 0, passkey |-> 0, events |-> <<>>]

NoReply == [path |-> "", found |-> FALSE, after |-> FALSE]

NoCancel == [called |-> FALSE, failed |-> {}, emitted |-> FALSE,
             exc |-> "none"]

InitAgent ==
    /\ pending_confirmations = {}
    /\ calls = [p \in Paths |-> NoCall]
    /\ reply = NoReply
    /\ cancelled = NoCancel

(* RemoteHidService.__init__: pressed_buttons = 0x0000.                    *)
InitHid ==
    /\ pressed_buttons = 0
    /\ notified = <<>>
    /\ clicking = {}
    /\ down = {}
    /\ hid_last = [op |-> "none", button |-> ""]

(* The worker of the task queue is between two tasks.                      *)
(* BluetoothManager.__init__, with two peers in BlueZ's object tree.       *)
Addresses == <<"AA:BB:CC:00:00:01", "AA:BB:CC:00:00:02">>

Device(paired, trusted, connected) ==
    [paired |-> paired, trusted |-> trusted, connected |-> connected]

InitAdv ==
    /\ active_profile = FALSE
    /\ active_advertisement = "None"
    /\ live = FALSE
    /\ bluez_devices =
          [k \in 1..Len(Addresses) |-> Device(FALSE, FALSE, FALSE)]
    /\ known_devices = [k \in 1..Len(Addresses) |-> "unknown"]

(* No connect is running.                                                  *)
NoConnect ==
    [impl |-> "none", known |-> FALSE, timeout |-> 0, supplied |-> 0,
     pc |-> "idle", i |-> 0, observed |-> FALSE, result |-> "none"]

InitConn ==
    /\ connecting = NoConnect
    /\ elapsed = 0
    /\ peer_connected = FALSE

(* The WebSocket clients of the IR record channel.                         *)
MaxSockets == 3
Sockets == 1..MaxSockets

NoSession ==
    [pc |-> "idle", client_state |-> "CONNECTED", left |-> FALSE,
     sent |-> <<>>]

InitRec ==
    /\ sessions = [w \in Sockets |-> NoSession]
    /\ recorder = None
    /\ persisted = <<>>

(* _start_listening, lines 90-91: count = 0, last_key = None.              *)
InitRfl ==
    /\ last_key = Nothing
    /\ payloads = <<>>
    /\ delivered = <<>>

(* No Command has been created, no request answered.                       *)
NoResponse == [status_code |-> 0, populated |-> {}]

InitCmd ==
    /\ db_commands = <<>>
    /\ response = NoResponse

(* No frame has been captured.                                             *)
NoFrame == [bytes |-> <<>>, timing |-> "none", nbits |-> 0]
NoDetection == [protocol |-> "none", confidence |-> [num |-> 0, den |-> 1]]
NoDecoded == [protocol |-> "none", confidence |-> 0, device_bits |-> 0,
              command_bits |-> 0]

InitIr ==
    /\ ir_frame = NoFrame
    /\ ir_code = <<>>
    /\ detected = NoDetection
    /\ decoded = NoDecoded

(* HaManager, lines 11-12: last_light_id = None.                           *)
InitHa ==
    /\ last_light_id = Nothing
    /\ ha_ops = <<>>
    /\ ha_calls = <<>>
    /\ ha_raised = FALSE

(* The files of config/ that load_key_map opens.                           *)
ConfigFiles == {"keymap_scenes", "keymap_default", "keymap_b"}

KeymapPath(keymap_name) ==
    IF keymap_name = "b" THEN "keymap_b" ELSE "keymap_default"

(* load_key_map, lines 460-466: the commands of the keymap that the store  *)
(* has.                                                                    *)
KeymapCommands(keymap_name) ==
    {i \in CommandIds :
        \E b \in DOMAIN KeymapFile(keymap_name) :
            KeymapFile(keymap_name)[b] = i}

(* RemoteController.create with every file of config/ in place.            *)
InitCache ==
    /\ cached_commands = Some(KeymapCommands("default"))
    /\ cache_last = [op |-> "create", arg |-> None, pre |-> Nothing,
                     exc |-> "none", sent |-> Nothing]

(* BleKeyboard, lines 49-50: pressed_keys = [], pressed_media_keys = [];   *)
(* nothing has been notified and no send_key is asleep.                    *)
InitKbd ==
    /\ kb_pressed_keys = <<>>
    /\ kb_pressed_media_keys = <<>>
    /\ report1 = Nothing
    /\ report2 = Nothing
    /\ kb_sleeping = [key |-> 0, media |-> 0]
    /\ kb_last = [op |-> "none", key_str |-> ""]

(* BleKeyboard.create, lines 53-61: the services are registered, the       *)
(* advertisement is up and the monitor task has been created; the peer of  *)
(* the scenes is paired and not connected.                                 *)
InitMon ==
    /\ kb_monitor_task = TRUE
    /\ kb_agent = TRUE
    /\ kb_advertisement = TRUE
    /\ kb_services = TRUE
    /\ kb_peer = "paired"
    /\ kb_swapped = FALSE
    /\ mon_last = [op |-> "create", scene |-> None]

(* No press has been reported.                                             *)
InitPress ==
    /\ queue_buttons = <<>>
    /\ ran_button = ""

(* Two agent callbacks that BlueZ may have in flight at a time.            *)
Callbacks2 == {1, 2}

NoWait == [pc |-> "idle", path |-> "", future |-> "none"]

(* PairingAgentBase.__init__: pending_confirmations = {}.                  *)
InitOvl ==
    /\ waiters = [c \in Callbacks2 |-> NoWait]
    /\ kept_future = [path \in Paths |-> 0]
    /\ confirm_reply = [path |-> "", waiting |-> FALSE, outcome |-> "none"]
    /\ overlapped = FALSE

(* The callers of BluetoothManager.advertise and stop_advertising.         *)
AdvCallers == {"monitor", "disconnect", "api"}

NoAdvCall == [pc |-> "idle", ad |-> 0, then |-> "none"]

(* BluetoothManager.__init__: active_advertisement = None, and BlueZ holds *)
(* no advertisement of the manager.                                        *)
InitReg ==
    /\ registered_ads = {}
    /\ active_ad = 0
    /\ adv_calls = [c \in AdvCallers |-> NoAdvCall]
    /\ made_ads = 0

NoTask == [op |-> "none", arg |-> None, press |-> FALSE, awaits |-> FALSE]

(* The RF listener has reported nothing yet.                               *)
NoRf == [kind |-> "none", button |-> "", task |-> NoTask]

Init ==
    /\ status = [devices |-> [d \in Devices |-> DefaultDeviceState],
                 current_scene |-> None, scene_status |-> NoStatus]
    /\ keymap = "default"
    /\ bt_peer = NoName
    /\ trace = <<>>
    /\ exc = "none"
    /\ last = Call("create", None, "plain")
    /\ again = NotAgain
    /\ queue = <<>>
    /\ held = NoneHeld
    /\ running = NoTask
    /\ http = None
    /\ rf = NoRf
    /\ InitAgent
    /\ InitHid
    /\ InitAdv
    /\ InitConn
    /\ InitRec
    /\ InitRfl
    /\ InitCmd
    /\ InitIr
    /\ InitHa
    /\ InitCache
    /\ InitKbd
    /\ InitMon
    /\ InitPress
    /\ InitOvl
    /\ InitReg

StartScene ==
    /\ \E s \in SceneIds \cup {UnknownScene}, reach \in BOOLEAN :
          Return(start_scene(Ctl(reach), s), Call("start_scene", s, "plain"))
    /\ UNCHANGED <<queue, running, http, rf>>
    /\ UNCHANGED <<agent_vars, hid_vars, ext_vars>>

StopCurrentScene ==
    /\ Return(stop_current_scene(Ctl(TRUE), {}),
              Call("stop_current_scene", None, "plain"))
    /\ UNCHANGED <<queue, running, http, rf>>
    /\ UNCHANGED <<agent_vars, hid_vars, ext_vars>>

SetCurrentScene ==
    /\ \E s \in SceneIds \cup {UnknownScene}, reach \in BOOLEAN :
          Return(set_current_scene(Ctl(reach), s),
                 Call("set_current_scene", s, "plain"))
    /\ UNCHANGED <<queue, running, http, rf>>
    /\ UNCHANGED <<agent_vars, hid_vars, ext_vars>>

(* send_command as POST /commands/{id}/send calls it: no flag.             *)
SendCommand ==
    /\ \E i \in CommandIds \cup {UnknownCommand} :
          Return(send_command(Ctl(TRUE), i, FALSE, FALSE, FALSE),
                 Call("send_command", i, "plain"))
    /\ UNCHANGED <<queue, running, http, rf>>
    /\ UNCHANGED <<agent_vars, hid_vars, ext_vars>>

(* send_command called with from_start or from_stop, outside a macro.      *)
Dispatch ==
    /\ \E i \in CommandIds \cup {UnknownCommand}, mode \in {"start", "stop"} :
          Return(send_command(Ctl(TRUE), i, FALSE, mode = "start", mode = "stop"),
                 Call("send_command", i, mode))
    /\ UNCHANGED <<queue, running, http, rf>>
    /\ UNCHANGED <<agent_vars, hid_vars, ext_vars>>

(* A task of the queue: the coroutine and its arguments.                   *)
Task(op, arg, press) ==
    [op |-> op, arg |-> arg, press |-> press, awaits |-> FALSE]

(* AsyncQueueManager.enqueue_task                                          *)
enqueue_task(q, task) == Append(q, task)

(* A variant of handle_button_press that looks a button up in the command  *)
(* table before the scene table.                                           *)
pressed_task_command_first(button) ==
    IF button = "Off" THEN Task("stop_current_scene", None, FALSE)
    ELSE IF Get(KeymapFile(keymap), button) # None
         THEN Task("send_command", Get(KeymapFile(keymap), button), TRUE)
         ELSE IF Get(KeymapScenes, button) # None
              THEN Task("start_scene", Get(KeymapScenes, button), FALSE)
              ELSE NoTask

(* RemoteController.handle_button_press: the task the press enqueues.      *)
pressed_task(button) ==
    IF button = "Off" THEN Task("stop_current_scene", None, FALSE)
    ELSE IF Get(KeymapScenes, button) # None
         THEN Task("start_scene", Get(KeymapScenes, button), FALSE)
         ELSE IF Get(KeymapFile(keymap), button) # None
              THEN Task("send_command", Get(KeymapFile(keymap), button), TRUE)
              ELSE NoTask

(* RemoteController.handle_button_press: the queue after the press.        *)
handle_button_press(q, button) ==
    IF pressed_task(button) # NoTask
    THEN enqueue_task(q, pressed_task(button))
    ELSE q

(* The RF listener reports a press.                                        *)
RfPress ==
    /\ Len(queue) < MaxQueue
    /\ \E b \in Buttons :
          /\ queue' = handle_button_press(queue, b)
          /\ rf' = [kind |-> "press", button |-> b, task |-> pressed_task(b)]
    /\ UNCHANGED <<status, keymap, bt_peer, trace, exc, last, again,
                   held, running, http>>
    /\ UNCHANGED <<agent_vars, hid_vars, ext_vars>>

(* The coroutine a queued task stands for, run on the controller c.        *)
run_task(c, task) ==
    CASE task.op = "stop_current_scene" -> stop_current_scene(c, {})
      [] task.op = "start_scene" -> start_scene(c, task.arg)
      [] task.op = "send_command" ->
            send_command(c, task.arg, task.press, FALSE, FALSE)

(* AsyncQueueManager worker: takes the oldest task and awaits it; a task   *)
(* that raises is logged and the worker goes on.                           *)
Worker ==
    /\ queue # <<>>
    /\ running = NoTask
    /\ \E reach \in BOOLEAN :
          Return(run_task(Ctl(reach), Head(queue)),
                 Queued(Head(queue).op, Head(queue).arg))
    /\ queue' = Tail(queue)
    /\ UNCHANGED <<running, http, rf>>
    /\ UNCHANGED <<agent_vars, hid_vars, ext_vars>>

(* Every method of the controller, called in any order.                    *)
Next ==
    \/ StartScene
    \/ StopCurrentScene
    \/ SetCurrentScene
    \/ SendCommand
    \/ Dispatch

Spec == Init /\ [][Next]_vars

(* The calls the application makes: from_start and from_stop dispatches    *)
(* only come from the macros of scene transitions.                         *)
NextApp ==
    \/ StartScene
    \/ StopCurrentScene
    \/ SetCurrentScene
    \/ SendCommand

SpecApp == Init /\ [][NextApp]_vars

(* The remote alone: presses reported by the RF listener and the worker    *)
(* of the task queue.                                                      *)
NextRf ==
    \/ RfPress
    \/ Worker

SpecRf == Init /\ [][NextRf]_vars

----------------------------------------------------------------------------
(* The task queue with its worker inside a task.  A task that emits        *)
(* awaits its transports and the delays of its macro; the worker is then   *)
(* suspended inside it, between WorkerTake and WorkerFinish.               *)
Suspended ==
    /\ running.op \in {"start_scene", "stop_current_scene"}
    /\ running.awaits

Idle == running = NoTask /\ queue = <<>>

(* What a coroutine leaves behind when nobody looks at what it returned    *)
(* or raised: the controller's state; the record of the last call made     *)
(* directly is left alone.                                                 *)
Settle(c) ==
    /\ status' = c.status
    /\ keymap' = c.keymap
    /\ bt_peer' = c.bt_peer
    /\ held' = c.held
    /\ UNCHANGED <<trace, exc, last, again>>

(* The worker inside the coroutine of task, which has run to c.            *)
Started(c, task) ==
    /\ Settle(c)
    /\ running' = [task EXCEPT !.awaits = Emits(c.trace) > 0]

(* AsyncQueueManager worker: queue.get() and the coroutine of the task,    *)
(* up to the last of its awaits.                                           *)
WorkerTake ==
    /\ queue # <<>>
    /\ running = NoTask
    /\ \E reach \in BOOLEAN :
          Started(run_task(Ctl(reach), Head(queue)), Head(queue))
    /\ queue' = Tail(queue)
    /\ UNCHANGED <<http, rf>>
    /\ UNCHANGED <<agent_vars, hid_vars, ext_vars>>

(* AsyncQueueManager worker: the awaited task returns or raises.           *)
WorkerFinish ==
    /\ running # NoTask
    /\ running' = NoTask
    /\ UNCHANGED <<status, keymap, bt_peer, trace, exc, last, again,
                   queue, held, http, rf>>
    /\ UNCHANGED <<agent_vars, hid_vars, ext_vars>>

(* AsyncQueueManager.enqueue_sync_task: the function is called from the    *)
(* consumer's context as soon as the consumer yields, ahead of the tasks   *)
(* that wait in the queue.                                                 *)
enqueue_sync_task(h) == release_all(h)

(* RemoteController.handle_button_release, reported by the RF listener     *)
(* one poll interval or more after the press: an idle worker has taken     *)
(* every task that arrived before, a suspended one yields to the call.     *)
RfRelease ==
    /\ rf.kind = "press"
    /\ Idle \/ Suspended
    /\ held' = enqueue_sync_task(held)
    /\ rf' = [rf EXCEPT !.kind = "release"]
    /\ UNCHANGED <<status, keymap, bt_peer, trace, exc, last, again,
                   queue, running, http>>
    /\ UNCHANGED <<agent_vars, hid_vars, ext_vars>>

(* The commands sent over HTTP: the first command of each transport.       *)
HttpCommands ==
    {i \in CommandIds :
        \A j \in CommandIds : j < i => GetCommand(j).type # GetCommand(i).type}

(* POST /commands/{id}/send: the endpoint awaits controller.send_command   *)
(* on the server's loop; the request is in flight while the transport      *)
(* sends.                                                                  *)
HttpSend ==
    /\ http = None
    /\ \E i \in HttpCommands :
          /\ transport(GetCommand(i)) = "sent"
          /\ http' = i
    /\ UNCHANGED <<status, keymap, bt_peer, trace, exc, last, again,
                   queue, held, running, rf>>
    /\ UNCHANGED <<agent_vars, hid_vars, ext_vars>>

HttpSendDone ==
    /\ http # None
    /\ Settle(send_command(Ctl(TRUE), http, FALSE, FALSE, FALSE))
    /\ http' = None
    /\ UNCHANGED <<queue, running, rf>>
    /\ UNCHANGED <<agent_vars, hid_vars, ext_vars>>

(* The remote and the worker of the task queue.                            *)
NextQueue ==
    \/ RfPress
    \/ RfRelease
    \/ WorkerTake
    \/ WorkerFinish

SpecQueue == Init /\ [][NextQueue]_vars

(* The remote, the worker and the HTTP endpoint that sends a command.      *)
NextLoop ==
    \/ RfPress
    \/ RfRelease
    \/ WorkerTake
    \/ WorkerFinish
    \/ HttpSend
    \/ HttpSendDone

SpecLoop == Init /\ [][NextLoop]_vars

----------------------------------------------------------------------------
(* Reading the trace of the last call.                                     *)
Events(e) == {k \in 1..Len(trace) : trace[k].ev = e}
EventsOf(e, i) == {k \in 1..Len(trace) : trace[k].ev = e /\ trace[k].id = i}

----------------------------------------------------------------------------
(* C1: in every reachable state, and in every Status the last call         *)
(* published on its way (also a call that failed part-way), scene_status   *)
(* is null if and only if current_scene is null.                           *)
C1_StatusNullIffSceneNull ==
    /\ (status.scene_status = NoStatus) <=> (status.current_scene = None)
    /\ \A k \in Events("status") :
           (trace[k].arg = NoStatus) <=> (trace[k].id = None)

(* A start_scene that raised in its start macro and left STARTING behind,  *)
(* followed by nothing else.                                               *)
C1_Witness ==
    /\ last.op = "start_scene"
    /\ exc # "none"
    /\ status.scene_status = "STARTING"
    /\ status.current_scene = last.arg

----------------------------------------------------------------------------
(* The last call is send_command(i, from_start / from_stop / neither) for  *)
(* a stored command.                                                       *)
Dispatched(mode) ==
    last.op = "send_command" /\ last.mode = mode /\ CommandExists(last.arg)

LastCommand == GetCommand(last.arg)

(* The last two calls were dispatch(c, from_start) for the same POWER_ON   *)
(* command c of a device.                                                  *)
PowerOnTwice ==
    /\ Dispatched("start")
    /\ again.same
    /\ LastCommand.button = "POWER_ON"
    /\ LastCommand.device_id # None

----------------------------------------------------------------------------
(* The last dispatch was skipped: nothing emitted, nothing raised,         *)
(* DeviceState as before.                                                  *)
Skipped ==
    /\ Events("skip") # {}
    /\ Events("emit") = {}
    /\ Events("raise") = {}
    /\ status.devices = last.pre.devices

(* The skip conditions of the claim, on the state before the dispatch.     *)
StartSkipCondition ==
    LET ds == last.pre.devices[LastCommand.device_id]
    IN \/ LastCommand.button \in {"POWER_ON", "POWER_TOGGLE"} /\ ds.powered
       \/ LastCommand.command_group = "INPUT" /\ ds.input = LastCommand.id

StopSkipCondition ==
    LET ds == last.pre.devices[LastCommand.device_id]
    IN LastCommand.button \in {"POWER_OFF", "POWER_TOGGLE"} /\ ~ds.powered

HandedToTransport ==
    IF LastCommand.type = "SCRIPT"
    THEN /\ Events("raise") # {}
         /\ Events("emit") = {}
         /\ exc = "HTTPException"
         /\ status.devices = last.pre.devices
    ELSE /\ Emits(trace) = 1
         /\ Events("raise") = {}
         /\ exc = "none"

----------------------------------------------------------------------------
(* The last call was a from_start or from_stop dispatch of a device        *)
(* command, and it was emitted.                                            *)
EmittedForDevice ==
    /\ Dispatched("start") \/ Dispatched("stop")
    /\ LastCommand.device_id # None
    /\ Emits(trace) = 1

Before == last.pre.devices[LastCommand.device_id]
After == status.devices[LastCommand.device_id]

(* C4 as claimed: after an emitted from_start / from_stop dispatch, INPUT  *)
(* gives powered = true and input = id, POWER_ON powered = true, POWER_OFF *)
(* powered = false, POWER_TOGGLE the negation of powered.                  *)
C4_Original ==
    EmittedForDevice =>
        /\ LastCommand.command_group = "INPUT" =>
                After.powered /\ After.input = LastCommand.id
        /\ LastCommand.button = "POWER_ON" => After.powered
        /\ LastCommand.button = "POWER_OFF" => ~After.powered
        /\ LastCommand.button = "POWER_TOGGLE" => After.powered = ~Before.powered

(* C4, amended: the INPUT update is applied first and the button's update  *)
(* after it.  INPUT gives input = id, and powered = true unless the button *)
(* is POWER_OFF or POWER_TOGGLE; POWER_ON gives true, POWER_OFF false;     *)
(* POWER_TOGGLE negates powered, and gives false for an INPUT command.     *)
C4_StateAfterEmission ==
    EmittedForDevice =>
        /\ LastCommand.command_group = "INPUT" =>
                /\ After.input = LastCommand.id
                /\ LastCommand.button \notin {"POWER_OFF", "POWER_TOGGLE"}
                       => After.powered
        /\ LastCommand.command_group # "INPUT" => After.input = Before.input
        /\ LastCommand.button = "POWER_ON" => After.powered
        /\ LastCommand.button = "POWER_OFF" => ~After.powered
        /\ LastCommand.button = "POWER_TOGGLE" =>
                After.powered = IF LastCommand.command_group = "INPUT"
                                THEN FALSE ELSE ~Before.powered
        /\ \A d \in Devices \ {LastCommand.device_id} :
                status.devices[d] = last.pre.devices[d]

(* An emitted from_stop POWER_OFF that turned its device off.              *)
C4_Witness ==
    /\ EmittedForDevice
    /\ last.mode = "stop"
    /\ LastCommand.button = "POWER_OFF"
    /\ LastCommand.command_group # "INPUT"
    /\ Before.powered
    /\ ~After.powered

----------------------------------------------------------------------------
(* The ids of the events of one kind, in trace order.                      *)
IdsOf(e) ==
    LET t == SelectSeq(trace, LAMBDA x : x.ev = e)
    IN [k \in 1..Len(t) |-> t[k].id]

(* The dispatches of the last call, in order, as <<id, mode>>.             *)
Dispatches ==
    LET t == SelectSeq(trace, LAMBDA x : x.ev = "dispatch")
    IN [k \in 1..Len(t) |-> <<t[k].id, t[k].arg>>]

(* The Status records the last call published, in order.                   *)
Published ==
    LET t == SelectSeq(trace, LAMBDA x : x.ev = "status")
    IN [k \in 1..Len(t) |-> <<t[k].id, t[k].arg>>]

Before1(e, i, j) ==
    \E a \in EventsOf(e, i), b \in EventsOf(e, j) : a < b

(* The scenario of the spec: scene 1 is A (stop macro powerOffTV 3,        *)
(* powerOffAmp 4), scene 2 is B (start macro powerOnTV 1, selectInput 2);  *)
(* the last call was start(B) from Active(A).                              *)
Handover ==
    /\ last.op = "start_scene"
    /\ last.arg = 2
    /\ last.pre.current_scene = 1
    /\ last.pre.scene_status = "ACTIVE"

HandoverEnd ==
    /\ status.current_scene = 2
    /\ status.scene_status = "ACTIVE"
    /\ status.devices[1] = [powered |-> TRUE, input |-> 2]
    /\ ~status.devices[2].powered

(* C5 as claimed: powerOffTV is filtered, powerOffAmp is emitted,          *)
(* powerOnTV and then selectInput are emitted, ending in Active(B) with    *)
(* the TV on at selectInput and the amplifier off.                         *)
C5_Original ==
    Handover =>
        /\ EventsOf("dispatch", 3) = {}
        /\ EventsOf("emit", 4) # {}
        /\ EventsOf("emit", 1) # {}
        /\ EventsOf("emit", 2) # {}
        /\ Before1("emit", 1, 2)
        /\ HandoverEnd

(* C5, amended: powerOffTV is not dispatched; powerOffAmp is dispatched    *)
(* with from_stop, then powerOnTV and selectInput with from_start, and     *)
(* each is emitted unless the dispatcher suppresses it against DeviceState *)
(* (the amplifier already off, the TV already on, the input already        *)
(* selected); the end state is as claimed.                                 *)
C5_Handover ==
    Handover =>
        /\ Dispatches = << <<4, "stop">>, <<1, "start">>, <<2, "start">> >>
        /\ EventsOf("emit", 4) # {} <=> last.pre.devices[2].powered
        /\ EventsOf("emit", 1) # {} <=> ~last.pre.devices[1].powered
        /\ EventsOf("emit", 2) # {} <=> last.pre.devices[1].input # 2
        /\ Published = << <<1, "STOPPING">>, <<None, NoStatus>>,
                          <<2, "STARTING">>, <<2, "ACTIVE">> >>
        /\ exc = "none"
        /\ HandoverEnd

(* The handover with the amplifier on and the TV off: all three emitted.   *)
C5_Witness ==
    /\ Handover
    /\ IdsOf("emit") = <<4, 1, 2>>
    /\ HandoverEnd

----------------------------------------------------------------------------
(* The devices a macro powers on, as the claims define the skip-set.       *)
PoweredOnBy(m) ==
    {d \in Devices : \E k \in 1..Len(MacroTable[m].command_ids) :
        LET i == MacroTable[m].command_ids[k]
        IN /\ CommandExists(i)
           /\ CommandTable[i].device_id = d
           /\ CommandTable[i].button \in {"POWER_ON", "POWER_TOGGLE"}}

(* The last call was start(s1) for a stored scene s1 while a scene s0 was  *)
(* current.                                                                *)
StartOverScene ==
    /\ last.op = "start_scene"
    /\ SceneExists(last.arg)
    /\ last.pre.current_scene # None

(* C6: start(s1) over a current scene s0 first stops s0 to completion      *)
(* (default keymap loaded, STOPPING published, the peer of s0              *)
(* disconnected, Idle published) and only then publishes STARTING for s1,  *)
(* for every s1, one without a start macro included.                       *)
C6_PreviousSceneStoppedFirst ==
    StartOverScene =>
        \E k \in EventsOf("status", last.arg) :
            /\ trace[k].arg = "STARTING"
            /\ \E i, j \in 1..(k - 1) :
                   /\ i < j
                   /\ trace[i] = Ev("status", last.pre.current_scene, "STOPPING")
                   /\ trace[j] = Ev("status", None, NoStatus)
            /\ \E i \in 1..(k - 1) : trace[i] = Ev("keymap", 0, "default")
            /\ GetScene(last.pre.current_scene).bluetooth_address # NoName =>
                   \E i \in 1..(k - 1) : trace[i].ev = "bt_disconnect"

----------------------------------------------------------------------------
(* stop_current_scene ran in the last call, for scene s0, with this skip.  *)
StopRan == Ev("status", last.pre.current_scene, "STOPPING") \in
               {trace[k] : k \in 1..Len(trace)}

StopSkip ==
    IF last.op = "start_scene" THEN PoweredOnBy(GetScene(last.arg).start_macro)
    ELSE {}

(* The stop-macro steps the claim says are dispatched, in macro order.     *)
StopStepsClaimed ==
    LET m == GetScene(last.pre.current_scene).stop_macro
        Sel(i) == /\ CommandExists(i)
                  /\ CommandTable[i].button \in {"POWER_OFF", "POWER_TOGGLE"}
                  /\ CommandTable[i].device_id \notin StopSkip
    IN IF m = None THEN <<>> ELSE SelectSeq(MacroTable[m].command_ids, Sel)

(* The from_stop dispatches of the last call, in order.                    *)
StopSteps ==
    LET t == SelectSeq(trace, LAMBDA x : x.ev = "dispatch" /\ x.arg = "stop")
    IN [k \in 1..Len(t) |-> t[k].id]

(* C7: stop_current_scene(skip) dispatches, with from_stop and in macro    *)
(* order, exactly the stop-macro steps whose button is POWER_OFF or        *)
(* POWER_TOGGLE and whose device is not in skip, and ends in Idle.         *)
C7_StopDispatchesPowerOffSteps ==
    StopRan =>
        /\ StopSteps = StopStepsClaimed
        /\ Ev("status", None, NoStatus) \in {trace[k] : k \in 1..Len(trace)}
        /\ last.op = "stop_current_scene" =>
               status.current_scene = None /\ status.scene_status = NoStatus

----------------------------------------------------------------------------
(* C8: when the worker has run the start_scene that a press of a button    *)
(* of the scene table enqueued and the queue is empty, that scene is       *)
(* current and ACTIVE.                                                     *)
C8_PressedSceneActive ==
    (queue = <<>> /\ last.via = "queue" /\ last.op = "start_scene") =>
        /\ status.current_scene = last.arg
        /\ status.scene_status = "ACTIVE"

----------------------------------------------------------------------------
(* The steps of the start macro that reached the dispatcher in the last    *)
(* call (a stored command is dispatched, an unknown id is logged).         *)
StartSteps ==
    LET t == SelectSeq(trace, LAMBDA x :
                 x.ev \in {"dispatch", "unknown"} /\ x.arg = "start")
    IN [k \in 1..Len(t) |-> t[k].id]

MacroStarted ==
    /\ last.op = "start_scene"
    /\ SceneExists(last.arg)
    /\ GetScene(last.arg).start_macro # None
    /\ Ev("status", last.arg, "STARTING") \in {trace[k] : k \in 1..Len(trace)}

(* C9: a step of a macro that fails (a SCRIPT command, an unknown id) does *)
(* not abort the macro: every step of the start macro reaches the          *)
(* dispatcher, in macro order.                                             *)
C9_MacroContinuesAfterFailure ==
    MacroStarted =>
        StartSteps = MacroTable[GetScene(last.arg).start_macro].command_ids

(* C10: once start_scene or stop_current_scene has returned or raised,     *)
(* scene_status is not STARTING and not STOPPING.                          *)
C10_TransitionEndsActiveOrIdle ==
    last.op \in {"start_scene", "stop_current_scene"} =>
        status.scene_status \notin {"STARTING", "STOPPING"}

----------------------------------------------------------------------------
(* The queue the claim describes after a press of button b: a button is    *)
(* in a table when the table binds it to an id.                            *)
PressClaimed(q, b) ==
    IF b = "Off" THEN Append(q, Task("stop_current_scene", None, FALSE))
    ELSE IF b \in DOMAIN KeymapScenes /\ KeymapScenes[b] # None
         THEN Append(q, Task("start_scene", KeymapScenes[b], FALSE))
         ELSE IF b \in DOMAIN KeymapFile(keymap) /\ KeymapFile(keymap)[b] # None
              THEN Append(q, Task("send_command", KeymapFile(keymap)[b], TRUE))
              ELSE q

(* A step in which the RF listener reported a press.                       *)
PressStep == rf'.kind = "press" /\ running' = running /\ http' = http

(* C11: an RF press enqueues exactly one task, chosen in this priority:    *)
(* "Off" enqueues stop_current_scene; otherwise a button of the scene      *)
(* table enqueues start_scene of its scene; otherwise a button of the      *)
(* active command table enqueues the dispatch of its command with          *)
(* press_without_release; a button in none of them enqueues nothing.       *)
C11_PressEnqueuesByPriority ==
    [][PressStep => queue' = PressClaimed(queue, rf'.button)]_vars

(* Button B, bound in the scene table and in the command table of keymap   *)
(* b, was pressed, and start_scene is the task at the end of the queue.    *)
C11_Witness ==
    /\ rf.kind = "press"
    /\ rf.button = "B"
    /\ keymap = "b"
    /\ Get(KeymapFile(keymap), "B") # None
    /\ queue # <<>>
    /\ queue[Len(queue)] = Task("start_scene", KeymapScenes["B"], FALSE)

----------------------------------------------------------------------------
(* C12: after press(b) and the release that follows it, for a button b     *)
(* bound in the command table, once the task queue has quiesced nothing    *)
(* is held: no IR repeat, no key in the keyboard report, none in the       *)
(* media report.                                                           *)
C12_NothingHeldAfterRelease ==
    (/\ rf.kind = "release"
     /\ rf.task.op = "send_command"
     /\ queue = <<>>
     /\ running = NoTask) => held = NoneHeld

----------------------------------------------------------------------------
(* C13: a dispatch started over HTTP is never in flight while the worker   *)
(* of the task queue is inside a task that emits.                          *)
C13_OneTransmitInFlight ==
    ~(http # None /\ running # NoTask /\ running.awaits)

----------------------------------------------------------------------------
(* DeviceState after the first k events of the last call: the state        *)
(* before the call, changed by every command emitted so far.               *)
RECURSIVE DevicesAt(_)
DevicesAt(k) ==
    IF k = 0 THEN last.pre.devices
    ELSE IF trace[k].ev = "emit"
         THEN set_state_for_command(
                  [Ctl(TRUE) EXCEPT !.status.devices = DevicesAt(k - 1)],
                  GetCommand(trace[k].id)).status.devices
         ELSE DevicesAt(k - 1)

(* The dispatches of the macros of the last scene transition.              *)
MacroDispatches ==
    IF last.op \in {"start_scene", "stop_current_scene"}
    THEN {k \in Events("dispatch") : trace[k].arg \in {"start", "stop"}}
    ELSE {}

SkippedAt(k) == k < Len(trace) /\ trace[k + 1].ev = "skip"

(* C14: within a macro run with from_start or from_stop, every command is  *)
(* suppressed or handed on against the DeviceState that the commands       *)
(* before it have left.                                                    *)
C14_StepSeesStateOfPreviousStep ==
    \A k \in MacroDispatches :
        SkippedAt(k) <=> suppressed(DevicesAt(k), GetCommand(trace[k].id),
                                    trace[k].arg = "start",
                                    trace[k].arg = "stop")

(* start(A) with the amplifier off: toggleAmp was emitted and powerOnAmp,  *)
(* not suppressed on the state before the macro, is suppressed after it.   *)
C14_Witness ==
    /\ last.op = "start_scene"
    /\ \E k \in MacroDispatches :
          /\ SkippedAt(k)
          /\ ~suppressed(last.pre.devices, GetCommand(trace[k].id),
                         trace[k].arg = "start", trace[k].arg = "stop")
          /\ \E j \in Events("emit") :
                /\ j < k
                /\ GetCommand(trace[j].id).device_id =
                       GetCommand(trace[k].id).device_id

----------------------------------------------------------------------------
(* BluetoothManager/agents: SecurePairingAgent over PairingAgentBase.      *)
(* An agent call for a device path is calls[path]: the method BlueZ        *)
(* called, where its coroutine stands (pc), the future it awaits, the      *)
(* seconds it has waited and the events it has handed to                   *)
(* pairing_callback.                                                       *)

(* The passkeys BlueZ asks to confirm (0 .. 999999).                       *)
Passkeys == {7, 123456}

HidUuid == "00001812-0000-1000-8000-00805f9b34fb"
Uuids == {HidUuid, "0000180f-0000-1000-8000-00805f9b34fb"}

(* The seconds between two looks at the clock.                             *)
Step == 15

(* The decimal digits of n.                                                *)
RECURSIVE Digits(_)
Digits(n) == IF n < 10 THEN <<n>> ELSE Append(Digits(n \div 10), n % 10)

RECURSIVE PadLeft(_, _)
PadLeft(digits, width) ==
    IF Len(digits) >= width THEN digits ELSE PadLeft(<<0>> \o digits, width)

(* A variant that formats the passkey without padding: f"{passkey}".       *)
format_unpadded(passkey) == Digits(passkey)

(* f"{passkey:06d}"                                                        *)
format_06d(passkey) == PadLeft(Digits(passkey), 6)

(* A variant in which AuthorizeService waits as long as the others.        *)
timeout_always_30(method) == 30

(* The timeout each agent method passes to _wait_for_confirmation.         *)
timeout(method) == IF method = "AuthorizeService" THEN 15 ELSE 30

Event(type, pin) == [type |-> type, pin |-> pin]

(* The event an agent method hands to _notify_event before it waits.       *)
request_event(method, passkey) ==
    CASE method = "RequestAuthorization" -> Event("authorization_request", <<>>)
      [] method = "RequestConfirmation" ->
            Event("confirm_passkey", format_06d(passkey))
      [] method = "AuthorizeService" -> Event("authorize_service", <<>>)

(* No coroutine of an earlier call for the path is still to resume: BlueZ  *)
(* keeps one request outstanding and every method awaits                   *)
(* _get_device_info, a bus round trip, before it registers its wait.       *)
Free(path) == calls[path].pc \in {"idle", "returned", "rejected"}

(* RequestAuthorization / RequestConfirmation / AuthorizeService up to     *)
(* the await of _wait_for_confirmation, which registers the future.        *)
Request ==
    /\ \E path \in Paths, passkey \in Passkeys,
          method \in {"RequestAuthorization", "RequestConfirmation"} :
          /\ Free(path)
          /\ calls' = [calls EXCEPT ![path] =
                 [method |-> method, pc |-> "waiting", future |-> "pending",
                  waited |-> 0,
                  passkey |-> IF method = "RequestConfirmation"
                              THEN passkey ELSE 0,
                  events |-> <<request_event(method, passkey)>>]]
          /\ pending_confirmations' = pending_confirmations \cup {path}
    /\ UNCHANGED <<reply, cancelled, rc_vars, hid_vars, ext_vars>>

(* AuthorizeService: the HID service is approved at once, any other        *)
(* service waits for a verdict.                                            *)
AuthorizeService ==
    /\ \E path \in Paths, uuid \in Uuids :
          /\ Free(path)
          /\ IF uuid = HidUuid
             THEN /\ calls' = [calls EXCEPT ![path] =
                         [NoCall EXCEPT !.method = "AuthorizeService",
                                        !.pc = "returned"]]
                  /\ UNCHANGED pending_confirmations
             ELSE /\ calls' = [calls EXCEPT ![path] =
                         [NoCall EXCEPT
                            !.method = "AuthorizeService",
                            !.pc = "waiting",
                            !.future = "pending",
                            !.events = <<request_event("AuthorizeService", 0)>>]]
                  /\ pending_confirmations' = pending_confirmations \cup {path}
    /\ UNCHANGED <<reply, cancelled, rc_vars, hid_vars, ext_vars>>

(* Time passes for a wait that asyncio.wait_for has not ended.             *)
Tick ==
    /\ \E path \in Paths :
          /\ calls[path].pc = "waiting"
          /\ calls[path].future = "pending"
          /\ calls[path].waited < timeout(calls[path].method)
          /\ calls' = [calls EXCEPT ![path].waited = @ + Step]
    /\ UNCHANGED <<pending_confirmations, reply, cancelled, rc_vars, hid_vars, ext_vars>>

(* PairingAgentBase.confirm_from_api, as POST /pair/confirm calls it: a    *)
(* ValueError is answered with 404.                                        *)
Confirm ==
    /\ \E path \in Paths, confirmed \in BOOLEAN :
          /\ reply' = [path |-> path,
                       found |-> path \in pending_confirmations,
                       after |-> calls[path].future \in {"true", "false"}]
          /\ calls' = IF /\ path \in pending_confirmations
                         /\ calls[path].future = "pending"
                      THEN [calls EXCEPT ![path].future =
                               IF confirmed THEN "true" ELSE "false"]
                      ELSE calls
    /\ UNCHANGED <<pending_confirmations, cancelled, rc_vars, hid_vars, ext_vars>>

(* _wait_for_confirmation resumes with the result or the exception of its  *)
(* future: the finally clause, then the agent method returns or raises.    *)
Resume ==
    /\ \E path \in Paths :
          /\ calls[path].pc = "waiting"
          /\ calls[path].future \in {"true", "false", "exception"}
          /\ pending_confirmations' = pending_confirmations \ {path}
          /\ calls' = [calls EXCEPT ![path].pc =
                 IF calls[path].future = "true" THEN "returned" ELSE "rejected"]
    /\ UNCHANGED <<reply, cancelled, rc_vars, hid_vars, ext_vars>>

(* asyncio.wait_for gives up: the future is cancelled and the except       *)
(* clause awaits _notify_event(pairing_timeout).                           *)
Timeout ==
    /\ \E path \in Paths :
          /\ calls[path].pc = "waiting"
          /\ calls[path].future = "pending"
          /\ calls[path].waited >= timeout(calls[path].method)
          /\ calls' = [calls EXCEPT
                 ![path].future = "cancelled",
                 ![path].pc = "timed_out",
                 ![path].events = Append(@, Event("pairing_timeout", <<>>))]
    /\ UNCHANGED <<pending_confirmations, reply, cancelled, rc_vars, hid_vars, ext_vars>>

(* The callback has returned: return False, the finally clause, and the    *)
(* agent method raises its rejection.                                      *)
TimeoutDone ==
    /\ \E path \in Paths :
          /\ calls[path].pc = "timed_out"
          /\ pending_confirmations' = pending_confirmations \ {path}
          /\ calls' = [calls EXCEPT ![path].pc = "rejected"]
    /\ UNCHANGED <<reply, cancelled, rc_vars, hid_vars, ext_vars>>

(* SecurePairingAgent.Cancel: every future that is not done gets the       *)
(* exception, the map is cleared, and asyncio.create_task raises           *)
(* NameError: the module does not import asyncio.                          *)
Cancel ==
    /\ LET failed == {p \in pending_confirmations :
                         calls[p].future = "pending"}
       IN /\ calls' = [p \in Paths |->
                 IF p \in failed THEN [calls[p] EXCEPT !.future = "exception"]
                 ELSE calls[p]]
          /\ cancelled' = [called |-> TRUE, failed |-> failed,
                           emitted |-> FALSE, exc |-> "NameError"]
    /\ pending_confirmations' = {}
    /\ UNCHANGED <<reply, rc_vars, hid_vars, ext_vars>>

(* BluetoothManager.get_pending_pairing_requests: the device paths listed. *)
get_pending_pairing_requests == pending_confirmations

NextAgent ==
    \/ Request
    \/ AuthorizeService
    \/ Tick
    \/ Confirm
    \/ Resume
    \/ Timeout
    \/ TimeoutDone
    \/ Cancel

SpecAgent == Init /\ [][NextAgent]_vars

----------------------------------------------------------------------------
(* The passkey as six decimal digits, the highest first.                   *)
SixDigits(n) == [k \in 1..6 |-> (n \div 10 ^ (6 - k)) % 10]

EventsOfType(path, type) ==
    SelectSeq(calls[path].events, LAMBDA e : e.type = type)

(* C15: RequestConfirmation(dev, passkey) emits exactly one                *)
(* confirm_passkey event, carrying the passkey zero-padded to six digits,  *)
(* and awaits a verdict: with confirm(dev, true) delivered before the      *)
(* bound the agent call returns normally, with confirm(dev, false) it is   *)
(* rejected.                                                               *)
C15_RequestConfirmation ==
    \A path \in Paths :
        calls[path].method = "RequestConfirmation" =>
            /\ Len(EventsOfType(path, "confirm_passkey")) = 1
            /\ EventsOfType(path, "confirm_passkey")[1].pin =
                   SixDigits(calls[path].passkey)
            /\ (calls[path].future = "true" /\ calls[path].pc # "waiting")
                   => calls[path].pc = "returned"
            /\ (calls[path].future = "false" /\ calls[path].pc # "waiting")
                   => calls[path].pc = "rejected"
            /\ calls[path].pc = "returned" => calls[path].future = "true"

(* A passkey of fewer than six digits was confirmed and the call has       *)
(* returned; another call was answered with false and is rejected.         *)
C15_Witness ==
    \E path, other \in Paths :
        /\ calls[path].method = "RequestConfirmation"
        /\ Len(Digits(calls[path].passkey)) < 6
        /\ calls[path].pc = "returned"
        /\ calls[other].method = "RequestConfirmation"
        /\ calls[other].future = "false"
        /\ calls[other].pc = "rejected"

----------------------------------------------------------------------------
(* C16: once a verdict has been delivered for a pending path, a later      *)
(* confirm for that path is answered NotFound, until a new request for     *)
(* the path is pending.                                                    *)
C16_SecondConfirmNotFound == reply.after => ~reply.found

----------------------------------------------------------------------------
(* The bound the claim gives each agent method, in seconds.                *)
ClaimedBound(method) ==
    CASE method \in {"RequestAuthorization", "RequestConfirmation"} -> 30
      [] method = "AuthorizeService" -> 15

(* C17: a wait that got no verdict within its bound (30 s for              *)
(* RequestAuthorization and RequestConfirmation, 15 s for                  *)
(* AuthorizeService) resolves as a rejection, with exactly one             *)
(* pairing_timeout event and the path out of the pending map.              *)
C17_TimeoutRejects ==
    \A path \in Paths :
        /\ calls[path].future = "cancelled" =>
               /\ calls[path].pc \in {"timed_out", "rejected"}
               /\ calls[path].waited = ClaimedBound(calls[path].method)
        /\ (calls[path].future = "cancelled" /\ calls[path].pc = "rejected") =>
               /\ Len(EventsOfType(path, "pairing_timeout")) = 1
               /\ path \notin pending_confirmations
        /\ calls[path].future # "cancelled" =>
               Len(EventsOfType(path, "pairing_timeout")) = 0

(* An AuthorizeService and a RequestConfirmation have both timed out.      *)
C17_Witness ==
    \E path, other \in Paths :
        /\ calls[path].method = "AuthorizeService"
        /\ calls[path].future = "cancelled"
        /\ calls[path].pc = "rejected"
        /\ calls[other].method = "RequestConfirmation"
        /\ calls[other].future = "cancelled"
        /\ calls[other].pc = "rejected"

----------------------------------------------------------------------------
(* C18: Cancel() fails every verdict pending at that moment (the waiting   *)
(* agent callbacks are rejected), leaves the pending map empty and emits   *)
(* a pairing_cancelled event.                                              *)
C18_CancelFailsPendingAndEmits ==
    cancelled.called =>
        /\ \A path \in Paths :
               calls[path].future = "exception" =>
                   calls[path].pc \in {"waiting", "rejected"}
        /\ cancelled.emitted

----------------------------------------------------------------------------
(* C19: get_pending_pairing_requests() lists a device path exactly when    *)
(* an agent callback for it awaits a verdict that has not been delivered,  *)
(* has not timed out and has not been cancelled.                           *)
C19_PendingListingExact ==
    \A path \in Paths :
        path \in get_pending_pairing_requests <=>
            (calls[path].pc = "waiting" /\ calls[path].future = "pending")

----------------------------------------------------------------------------
(* BluetoothManager/services/hid: RemoteHidService over the button table   *)
(* of descriptors/RemoteDescriptor.py.                                     *)
REMOTE_BUTTONS ==
    [DPAD_UP |-> 1, DPAD_DOWN |-> 2, DPAD_LEFT |-> 4, DPAD_RIGHT |-> 8,
     SELECT |-> 16, BACK |-> 32, HOME |-> 64, MENU |-> 128,
     PLAY_PAUSE |-> 256, STOP |-> 512, REWIND |-> 1024,
     FAST_FORWARD |-> 2048, VOLUME_UP |-> 4096, VOLUME_DOWN |-> 8192,
     MUTE |-> 16384, POWER |-> 32768]

(* The names the service is called with: buttons of the low byte, one of   *)
(* them in lower case, two of the high byte, and a name the table lacks.   *)
ButtonNames ==
    {"DPAD_UP", "DPAD_LEFT", "select", "PLAY_PAUSE", "POWER", "NETFLIX"}

(* str.upper                                                               *)
upper(button_name) == IF button_name = "select" THEN "SELECT" ELSE button_name

(* get_button_value raises ValueError for a name the table lacks.          *)
known(button_name) == upper(button_name) \in DOMAIN REMOTE_BUTTONS

get_button_value(button_name) == REMOTE_BUTTONS[upper(button_name)]

(* x | v and x & ~v for a value v of one bit.                              *)
bit_set(x, v) == (x \div v) % 2 = 1

bit_or(x, v) == IF bit_set(x, v) THEN x ELSE x + v

(* A variant of release_button that clears the whole report.               *)
bit_and_not_clears_all(x, v) == 0

bit_and_not(x, v) == IF bit_set(x, v) THEN x - v ELSE x

(* _notify_button_state: bytes([x & 0xFF, (x >> 8) & 0xFF])                *)
report_data(x) == <<x % 256, (x \div 256) % 256>>

(* RemoteHidService.press_button, on the report x.                         *)
press_button(x, button_name) ==
    IF known(button_name) THEN bit_or(x, get_button_value(button_name)) ELSE x

(* RemoteHidService.release_button, on the report x.                       *)
release_button(x, button_name) ==
    IF known(button_name)
    THEN bit_and_not(x, get_button_value(button_name))
    ELSE x

(* The notification an operation on button_name leaves behind.             *)
notify_button_state(x, button_name) ==
    IF known(button_name) THEN report_data(x) ELSE notified

PressButton ==
    /\ \E b \in ButtonNames :
          /\ pressed_buttons' = press_button(pressed_buttons, b)
          /\ notified' = notify_button_state(pressed_buttons', b)
          /\ down' = IF known(b) THEN down \cup {upper(b)} ELSE down
          /\ hid_last' = [op |-> "press_button", button |-> b]
    /\ UNCHANGED <<clicking, rc_vars, agent_vars, ext_vars>>

ReleaseButton ==
    /\ \E b \in ButtonNames :
          /\ pressed_buttons' = release_button(pressed_buttons, b)
          /\ notified' = notify_button_state(pressed_buttons', b)
          /\ down' = IF known(b) THEN down \ {upper(b)} ELSE down
          /\ hid_last' = [op |-> "release_button", button |-> b]
    /\ UNCHANGED <<clicking, rc_vars, agent_vars, ext_vars>>

ReleaseAllButtons ==
    /\ pressed_buttons' = 0
    /\ notified' = report_data(pressed_buttons')
    /\ down' = {}
    /\ hid_last' = [op |-> "release_all_buttons", button |-> ""]
    /\ UNCHANGED <<clicking, rc_vars, agent_vars, ext_vars>>

(* click_button up to its sleep: the press.                                *)
ClickButton ==
    /\ \E b \in ButtonNames \ clicking :
          /\ pressed_buttons' = press_button(pressed_buttons, b)
          /\ notified' = notify_button_state(pressed_buttons', b)
          /\ down' = IF known(b) THEN down \cup {upper(b)} ELSE down
          /\ clicking' = clicking \cup {b}
          /\ hid_last' = [op |-> "click_button", button |-> b]
    /\ UNCHANGED <<rc_vars, agent_vars, ext_vars>>

(* click_button after its sleep: the release.                              *)
ClickDone ==
    /\ \E b \in clicking :
          /\ pressed_buttons' = release_button(pressed_buttons, b)
          /\ notified' = notify_button_state(pressed_buttons', b)
          /\ down' = IF known(b) THEN down \ {upper(b)} ELSE down
          /\ clicking' = clicking \ {b}
          /\ hid_last' = [op |-> "click_done", button |-> b]
    /\ UNCHANGED <<rc_vars, agent_vars, ext_vars>>

NextHid ==
    \/ PressButton
    \/ ReleaseButton
    \/ ReleaseAllButtons
    \/ ClickButton
    \/ ClickDone

SpecHid == Init /\ [][NextHid]_vars

----------------------------------------------------------------------------
(* The OR of the bits of a set of buttons (their bits are distinct).       *)
RECURSIVE OrOfBits(_)
OrOfBits(names) ==
    IF names = {} THEN 0
    ELSE LET b == CHOOSE n \in names : TRUE
         IN REMOTE_BUTTONS[b] + OrOfBits(names \ {b})

(* The two bytes of a 16-bit value, the low byte first.                    *)
LittleEndian(x) == <<x - 256 * (x \div 256), x \div 256>>

(* C20: after any sequence of press_button, release_button,                *)
(* release_all_buttons and click_button, the 16-bit report is the OR of    *)
(* the bits of the buttons pressed and not since released, a click has     *)
(* left its button's bit clear when it completes, and the operation has    *)
(* notified the two-byte little-endian encoding of the resulting report.   *)
C20_ReportIsOrOfPressed ==
    /\ pressed_buttons \in 0..65535
    /\ pressed_buttons = OrOfBits(down)
    /\ (hid_last.op = "click_done" /\ known(hid_last.button)) =>
           ~bit_set(pressed_buttons, get_button_value(hid_last.button))
    /\ (hid_last.op = "release_all_buttons" \/ known(hid_last.button)) =>
           notified = LittleEndian(OrOfBits(down))

(* A click has completed while a button of the high byte and one of the    *)
(* low byte stay pressed.                                                  *)
C20_Witness ==
    /\ hid_last.op = "click_done"
    /\ known(hid_last.button)
    /\ down = {"SELECT", "POWER"}
    /\ notified = <<16, 128>>

----------------------------------------------------------------------------
(* descriptors/RemoteDescriptor.py: the Report Map the host reads.         *)

(* a | b on naturals.                                                      *)
RECURSIVE bit_or_int(_, _)
bit_or_int(a, b) ==
    IF a = 0 THEN b
    ELSE IF b = 0 THEN a
    ELSE (IF a % 2 = 1 \/ b % 2 = 1 THEN 1 ELSE 0)
         + 2 * bit_or_int(a \div 2, b \div 2)

(* The item prefixes of HIDTypes.h.                                        *)
HIDINPUT(size) == bit_or_int(128, size)
COLLECTION(size) == bit_or_int(160, size)
END_COLLECTION(size) == bit_or_int(192, size)
USAGE_PAGE(size) == bit_or_int(4, size)
LOGICAL_MINIMUM(size) == bit_or_int(20, size)
LOGICAL_MAXIMUM(size) == bit_or_int(36, size)
REPORT_SIZE(size) == bit_or_int(116, size)
REPORT_ID(size) == bit_or_int(132, size)
REPORT_COUNT(size) == bit_or_int(148, size)
USAGE(size) == bit_or_int(8, size)

REMOTE_CONTROL_ID == 1

REMOTE_REPORT_MAP ==
    <<USAGE_PAGE(1), 12,
      USAGE(1), 1,
      COLLECTION(1), 1,
      REPORT_ID(1), REMOTE_CONTROL_ID,
      USAGE_PAGE(1), 1,
      USAGE(1), 144,
      USAGE(1), 145,
      USAGE(1), 146,
      USAGE(1), 147,
      USAGE_PAGE(1), 12,
      USAGE(1), 65,
      USAGE(2), 36, 2,
      USAGE(2), 35, 2,
      USAGE(1), 64,
      USAGE(1), 205,
      USAGE(1), 183,
      USAGE(1), 180,
      USAGE(1), 179,
      USAGE(1), 233,
      USAGE(1), 234,
      USAGE(1), 226,
      USAGE(1), 48,
      LOGICAL_MINIMUM(1), 0,
      LOGICAL_MAXIMUM(1), 1,
      REPORT_SIZE(1), 1,
      REPORT_COUNT(1), 16,
      HIDINPUT(1), 2,
      END_COLLECTION(0)>>

(* The function each usage of the Report Map stands for, as the comments   *)
(* of the Report Map name them (HID usage tables: Generic Desktop page 1,  *)
(* Consumer page 12).                                                      *)
UsageFunction(page, usage) ==
    CASE page = 1 /\ usage = 144 -> "DPAD_UP"
      [] page = 1 /\ usage = 145 -> "DPAD_DOWN"
      [] page = 1 /\ usage = 146 -> "DPAD_RIGHT"
      [] page = 1 /\ usage = 147 -> "DPAD_LEFT"
      [] page = 12 /\ usage = 65 -> "SELECT"
      [] page = 12 /\ usage = 548 -> "BACK"
      [] page = 12 /\ usage = 547 -> "HOME"
      [] page = 12 /\ usage = 64 -> "MENU"
      [] page = 12 /\ usage = 205 -> "PLAY_PAUSE"
      [] page = 12 /\ usage = 183 -> "STOP"
      [] page = 12 /\ usage = 180 -> "REWIND"
      [] page = 12 /\ usage = 179 -> "FAST_FORWARD"
      [] page = 12 /\ usage = 233 -> "VOLUME_UP"
      [] page = 12 /\ usage = 234 -> "VOLUME_DOWN"
      [] page = 12 /\ usage = 226 -> "MUTE"
      [] page = 12 /\ usage = 48 -> "POWER"
      [] page = 12 /\ usage = 1 -> "CONSUMER_CONTROL"
      [] OTHER -> "UNDEFINED"

(* The host's reading of the Report Map from byte i on: a short item is a  *)
(* prefix (tag and size) and size bytes of little-endian data.  A Usage    *)
(* Page item sets the page, a Usage item queues a usage of that page, a    *)
(* Collection item consumes the usages queued, and the Input item hands    *)
(* the queued usages to the bits of the report, the first to bit 0.        *)
RECURSIVE ReportFields(_, _, _)
ReportFields(i, page, usages) ==
    IF i > Len(REMOTE_REPORT_MAP) THEN <<>>
    ELSE LET prefix == REMOTE_REPORT_MAP[i]
             size == prefix % 4
             tag == prefix - size
             data == IF size = 0 THEN 0
                     ELSE IF size = 1 THEN REMOTE_REPORT_MAP[i + 1]
                     ELSE REMOTE_REPORT_MAP[i + 1]
                          + 256 * REMOTE_REPORT_MAP[i + 2]
             next == i + 1 + size
         IN CASE tag = 4 -> ReportFields(next, data, usages)
              [] tag = 8 ->
                    ReportFields(next, page,
                                 Append(usages, UsageFunction(page, data)))
              [] tag = 160 -> ReportFields(next, page, <<>>)
              [] tag = 128 -> usages
              [] OTHER -> ReportFields(next, page, usages)

(* The buttons the host takes as pressed when it receives the report x.    *)
HostSees(x) ==
    LET fields == ReportFields(1, 0, <<>>)
    IN {fields[k] : k \in {j \in 1..Len(fields) : (x \div (2 ^ (j - 1))) % 2 = 1}}

(* The bit the claim fixes for each button.                                *)
BitOfButton ==
    [DPAD_UP |-> 0, DPAD_DOWN |-> 1, DPAD_LEFT |-> 2, DPAD_RIGHT |-> 3,
     SELECT |-> 4, BACK |-> 5, HOME |-> 6, MENU |-> 7,
     PLAY_PAUSE |-> 8, STOP |-> 9, REWIND |-> 10, FAST_FORWARD |-> 11,
     VOLUME_UP |-> 12, VOLUME_DOWN |-> 13, MUTE |-> 14, POWER |-> 15]

(* C21: each of the 16 remote buttons occupies the bit the specification   *)
(* fixes and the usage the Report Map declares at that bit is the same     *)
(* function: the host that receives the report of the service takes        *)
(* exactly the buttons that are down as pressed.                           *)
C21_HostSeesPressedButtons ==
    /\ \A b \in DOMAIN REMOTE_BUTTONS : REMOTE_BUTTONS[b] = 2 ^ BitOfButton[b]
    /\ Len(ReportFields(1, 0, <<>>)) = Cardinality(DOMAIN REMOTE_BUTTONS)
    /\ HostSees(pressed_buttons) = down

----------------------------------------------------------------------------
(* BluetoothManager/BluetoothManager.py: advertising and the connection    *)
(* monitor.  An advertisement is the pair of the manager's                 *)
(* active_advertisement and of whether BlueZ holds it registered (live).   *)
Adv(a, l) == [active_advertisement |-> a, live |-> l]

(* BluetoothManager.stop_advertising                                       *)
stop_advertising(m) ==
    IF m.active_advertisement # "None" THEN Adv("None", FALSE) ELSE m

(* BluetoothManager.advertise with the active profile: the Advertisement   *)
(* is assigned to active_advertisement, then registered; registered tells  *)
(* whether Advertisement.register returns or raises.                       *)
advertise(m, profile, registered) ==
    LET m1 == stop_advertising(m)
    IN IF ~profile THEN m1
       ELSE Adv("Advertisement", registered)

(* _connection_monitor: the loop over the devices, from the k-th on.  st    *)
(* holds the advertisement, known_devices and the devices as BlueZ has     *)
(* them; registered[k] and trusted[k] are the outcomes of the              *)
(* registration and of trust_device tried for the k-th device.             *)
RECURSIVE monitor_devices(_, _, _, _, _)
monitor_devices(k, st, seen, registered, trusted) ==
    IF k > Len(seen) THEN st
    ELSE LET device == seen[k]
             prev == st.known[k]
             known1 == [st.known EXCEPT ![k] =
                           IF device.connected THEN "connected"
                           ELSE "disconnected"]
             devs1 == IF device.paired /\ ~device.trusted /\ trusted[k]
                      THEN [st.devs EXCEPT ![k].trusted = TRUE]
                      ELSE st.devs
             m1 == IF prev = "connected" /\ ~device.connected /\ active_profile
                   THEN advertise(stop_advertising(st.m), active_profile,
                                  registered[k])
                   ELSE st.m
         IN monitor_devices(k + 1, [m |-> m1, known |-> known1, devs |-> devs1],
                            seen, registered, trusted)

(* _connection_monitor: one iteration after the sleep.                     *)
connection_monitor(registered, trusted) ==
    LET any_connected ==
            \E k \in 1..Len(bluez_devices) : bluez_devices[k].connected
        st == monitor_devices(1,
                  [m |-> Adv(active_advertisement, live),
                   known |-> known_devices, devs |-> bluez_devices],
                  bluez_devices, registered, trusted)
        m2 == IF ~any_connected /\ active_profile
                 /\ st.m.active_advertisement = "None"
              THEN advertise(st.m, active_profile,
                             registered[Len(bluez_devices) + 1])
              ELSE st.m
    IN [st EXCEPT !.m = m2]

Outcomes == [1..(Len(Addresses) + 1) -> BOOLEAN]

MonitorTick ==
    /\ \E registered \in Outcomes, trusted \in Outcomes :
          LET st == connection_monitor(registered, trusted)
          IN /\ active_advertisement' = st.m.active_advertisement
             /\ live' = st.m.live
             /\ known_devices' = st.known
             /\ bluez_devices' = st.devs
    /\ UNCHANGED active_profile
    /\ UNCHANGED not_adv

(* An iteration of the monitor in which every registration succeeds.       *)
MonitorTickRegistered ==
    /\ \E trusted \in Outcomes :
          LET st == connection_monitor([k \in DOMAIN trusted |-> TRUE], trusted)
          IN /\ active_advertisement' = st.m.active_advertisement
             /\ live' = st.m.live
             /\ known_devices' = st.known
             /\ bluez_devices' = st.devs
    /\ UNCHANGED active_profile
    /\ UNCHANGED not_adv

(* BluetoothManager.activate_profile                                       *)
ActivateProfile ==
    /\ active_profile' = TRUE
    /\ UNCHANGED <<active_advertisement, live, bluez_devices, known_devices>>
    /\ UNCHANGED not_adv

(* POST /bluetooth/advertise                                               *)
Advertise ==
    /\ \E registered \in BOOLEAN :
          LET m == advertise(Adv(active_advertisement, live), active_profile,
                             registered)
          IN /\ active_advertisement' = m.active_advertisement
             /\ live' = m.live
    /\ UNCHANGED <<active_profile, bluez_devices, known_devices>>
    /\ UNCHANGED not_adv

(* POST /bluetooth/advertise/stop                                          *)
StopAdvertising ==
    /\ LET m == stop_advertising(Adv(active_advertisement, live))
       IN /\ active_advertisement' = m.active_advertisement
          /\ live' = m.live
    /\ UNCHANGED <<active_profile, bluez_devices, known_devices>>
    /\ UNCHANGED not_adv

(* A peer pairs with, connects to or leaves the peripheral; it can only    *)
(* find the peripheral while an advertisement is live.                     *)
PeerPairs ==
    /\ live
    /\ \E k \in 1..Len(bluez_devices) :
          /\ ~bluez_devices[k].paired
          /\ bluez_devices' = [bluez_devices EXCEPT ![k].paired = TRUE,
                                        ![k].connected = TRUE]
    /\ UNCHANGED <<active_profile, active_advertisement, live, known_devices>>
    /\ UNCHANGED not_adv

PeerConnects ==
    /\ live
    /\ \E k \in 1..Len(bluez_devices) :
          /\ bluez_devices[k].paired
          /\ ~bluez_devices[k].connected
          /\ bluez_devices' = [bluez_devices EXCEPT ![k].connected = TRUE]
    /\ UNCHANGED <<active_profile, active_advertisement, live, known_devices>>
    /\ UNCHANGED not_adv

PeerDisconnects ==
    /\ \E k \in 1..Len(bluez_devices) :
          /\ bluez_devices[k].connected
          /\ bluez_devices' = [bluez_devices EXCEPT ![k].connected = FALSE]
    /\ UNCHANGED <<active_profile, active_advertisement, live, known_devices>>
    /\ UNCHANGED not_adv

NextAdv ==
    \/ MonitorTick
    \/ ActivateProfile
    \/ Advertise
    \/ StopAdvertising
    \/ PeerPairs
    \/ PeerConnects
    \/ PeerDisconnects

SpecAdv == Init /\ [][NextAdv]_vars

(* The monitor task keeps running, and a registration that is tried again  *)
(* and again succeeds in the end.                                          *)
SpecAdvFair ==
    /\ SpecAdv
    /\ WF_vars(MonitorTick)
    /\ SF_vars(MonitorTickRegistered)

(* C22: while a profile is active and the monitor runs, whenever no peer   *)
(* is connected and no advertisement is live, also after a disconnect and  *)
(* after a registration that failed, an advertisement becomes live.        *)
C22_AdvertisingComesBack ==
    (/\ active_profile
     /\ \A k \in 1..Len(bluez_devices) : ~bluez_devices[k].connected
     /\ ~live) ~> live

----------------------------------------------------------------------------
(* connect(address, timeout) of BleKeyboard/BleKeyboard.py, which the      *)
(* controller calls, and of BluetoothManager/BluetoothManager.py.  Time    *)
(* is counted in half seconds and only where the code sleeps or waits      *)
(* with a timeout: a D-Bus call takes no time and returns or raises.       *)
HalfSeconds(seconds) == 2 * seconds

(* The timeouts a caller supplies; 0 stands for a call without one.        *)
MaxTimeout == 2
Timeouts == 0..MaxTimeout

(* def connect(self, address, timeout: int = 30) of BleKeyboard and        *)
(* def connect(self, device_address, timeout: int = 10) of                 *)
(* BluetoothManager.                                                       *)
default_timeout(impl) == IF impl = "BleKeyboard" THEN 30 ELSE 10

Returned(call, result, observed) ==
    [call EXCEPT !.pc = "done", !.result = result, !.observed = observed]

(* The call: the caller passes a timeout or leaves the default.            *)
Connect ==
    /\ connecting.pc = "idle"
    /\ \E impl \in {"BleKeyboard", "BluetoothManager"}, paired \in BOOLEAN,
          t \in Timeouts :
          connecting' = [impl |-> impl, known |-> paired,
                         timeout |-> IF t = 0 THEN default_timeout(impl) ELSE t,
                         supplied |-> t, pc |-> "start", i |-> 0,
                         observed |-> FALSE, result |-> "none"]
    /\ elapsed' = 0
    /\ UNCHANGED peer_connected
    /\ UNCHANGED not_conn

(* BleKeyboard.connect up to the refresh of the advertisement: the lookup  *)
(* of the peer; any exception is caught and turned into False.             *)
KbLookup ==
    /\ connecting.impl = "BleKeyboard"
    /\ connecting.pc = "start"
    /\ \E dbus \in BOOLEAN :
          connecting' =
             IF ~dbus THEN Returned(connecting, "false", FALSE)
             ELSE IF ~connecting.known THEN Returned(connecting, "false", FALSE)
             ELSE IF peer_connected THEN Returned(connecting, "true", TRUE)
             ELSE [connecting EXCEPT !.pc = "refresh"]
    /\ UNCHANGED <<elapsed, peer_connected>>
    /\ UNCHANGED not_conn

(* stop_advertising, sleep(0.5), advertise.                                *)
KbRefresh ==
    /\ connecting.impl = "BleKeyboard"
    /\ connecting.pc = "refresh"
    /\ elapsed' = elapsed + 1
    /\ \E dbus \in BOOLEAN :
          connecting' =
             IF ~dbus THEN Returned(connecting, "false", FALSE)
             ELSE IF connecting.timeout = 0
                  THEN Returned(connecting, "false", FALSE)
                  ELSE [connecting EXCEPT !.pc = "wait"]
    /\ UNCHANGED peer_connected
    /\ UNCHANGED not_conn

(* for i in range(timeout): sleep(1), read the devices; after the last     *)
(* iteration return False.                                                 *)
KbPoll ==
    /\ connecting.impl = "BleKeyboard"
    /\ connecting.pc = "wait"
    /\ elapsed' = elapsed + HalfSeconds(1)
    /\ \E dbus \in BOOLEAN :
          connecting' =
             IF ~dbus THEN Returned(connecting, "false", FALSE)
             ELSE IF peer_connected THEN Returned(connecting, "true", TRUE)
             ELSE IF connecting.i + 1 = connecting.timeout
                  THEN Returned(connecting, "false", FALSE)
                  ELSE [connecting EXCEPT !.i = @ + 1]
    /\ UNCHANGED peer_connected
    /\ UNCHANGED not_conn

(* BluetoothManager.connect up to call_connect: get_devices and the        *)
(* introspection are outside the try statement.                            *)
BmLookup ==
    /\ connecting.impl = "BluetoothManager"
    /\ connecting.pc = "start"
    /\ \E dbus \in BOOLEAN :
          connecting' =
             IF ~connecting.known /\ dbus
             THEN Returned(connecting, "false", FALSE)
             ELSE IF ~dbus THEN Returned(connecting, "raised", FALSE)
             ELSE [connecting EXCEPT !.pc = "call_connect"]
    /\ UNCHANGED <<elapsed, peer_connected>>
    /\ UNCHANGED not_conn

(* wait_for(device_interface.call_connect(), timeout): the call returns    *)
(* within the timeout, raises, or is cut off by the timeout.               *)
BmCallConnect ==
    /\ connecting.impl = "BluetoothManager"
    /\ connecting.pc = "call_connect"
    /\ \E outcome \in {"returns", "raises", "timeout"},
          waited \in 0..HalfSeconds(connecting.timeout) :
          /\ outcome = "timeout" => waited = HalfSeconds(connecting.timeout)
          /\ elapsed' = elapsed + waited
          /\ peer_connected' = IF outcome = "returns" THEN TRUE
                                ELSE peer_connected
          /\ connecting' =
                IF outcome = "returns" THEN Returned(connecting, "true", TRUE)
                ELSE Returned(connecting, "false", FALSE)
    /\ UNCHANGED not_conn

(* The caller has the result.                                              *)
ConnectReturns ==
    /\ connecting.pc = "done"
    /\ connecting' = NoConnect
    /\ UNCHANGED <<elapsed, peer_connected>>
    /\ UNCHANGED not_conn

(* The central connects to the peripheral or leaves it.                    *)
CentralConnects ==
    /\ peer_connected' = ~peer_connected
    /\ UNCHANGED <<connecting, elapsed>>
    /\ UNCHANGED not_conn

NextConn ==
    \/ Connect
    \/ KbLookup
    \/ KbRefresh
    \/ KbPoll
    \/ BmLookup
    \/ BmCallConnect
    \/ ConnectReturns
    \/ CentralConnects

SpecConn == Init /\ [][NextConn]_vars

(* The timeout the claim measures a call against: the one supplied, or     *)
(* 10 s.                                                                   *)
ClaimedTimeout(call) == IF call.supplied = 0 THEN 10 ELSE call.supplied

(* C23: connect(address, timeout) ends within the timeout the caller       *)
(* supplied (10 s by default), returns true only if the peer was observed  *)
(* connected, and returns false, without raising, when the peer is         *)
(* unknown or no connection was observed in time.                          *)
C23_ConnectBounded ==
    connecting.pc = "done" =>
        /\ elapsed <= HalfSeconds(ClaimedTimeout(connecting))
        /\ connecting.result = "true" => connecting.observed
        /\ (~connecting.known \/ ~connecting.observed) =>
               connecting.result = "false"

----------------------------------------------------------------------------
(* RemoteController.record_ir_command over the recorder of the IR          *)
(* manager.  A session is one call of record_ir_command with its           *)
(* WebSocket; recorder is the session whose record is in flight.           *)

(* IrManager.cancel_recording: the record in flight resolves with the      *)
(* cancelled outcome, which its awaiter receives as CancelledError.        *)
cancel_recording(ss, active) ==
    IF active # None THEN [ss EXCEPT ![active].pc = "cancelling"] ELSE ss

(* websocket.send_json                                                     *)
send_json(session, message) == [session EXCEPT !.sent = Append(@, message)]

(* A variant of record_ir_command that starts its record without the       *)
(* cancel_recording of line 111.                                           *)
RecordIrCommandWithoutCancel ==
    /\ \E w \in Sockets :
          /\ sessions[w].pc = "idle"
          /\ sessions[w].client_state = "CONNECTED"
          /\ sessions' =
                [sessions EXCEPT
                    ![w] = send_json([@ EXCEPT !.pc = "recording"],
                                     "recording_started")]
          /\ recorder' = w
    /\ UNCHANGED persisted
    /\ UNCHANGED not_rec

(* record_ir_command up to the await of record_command: the record in      *)
(* flight is cancelled and the record of this session starts.              *)
RecordIrCommand ==
    /\ \E w \in Sockets :
          /\ sessions[w].pc = "idle"
          /\ sessions[w].client_state = "CONNECTED"
          /\ sessions' =
                [cancel_recording(sessions, recorder) EXCEPT
                    ![w] = send_json([@ EXCEPT !.pc = "recording"],
                                     "recording_started")]
          /\ recorder' = w
    /\ UNCHANGED persisted
    /\ UNCHANGED not_rec

(* record_command returns the code: the Command is persisted and the       *)
(* client is told; the send to a client that has left raises after the     *)
(* commit.                                                                 *)
RecordDone ==
    /\ \E w \in Sockets :
          /\ sessions[w].pc = "recording"
          /\ persisted' = Append(persisted, w)
          /\ sessions' =
                [sessions EXCEPT
                    ![w] = IF @.client_state = "CONNECTED"
                           THEN send_json([@ EXCEPT !.pc = "done"], "done")
                           ELSE [@ EXCEPT !.pc = "done"]]
          /\ recorder' = IF recorder = w THEN None ELSE recorder
    /\ UNCHANGED not_rec

(* record_command raises CancelledError: the except clause.                *)
RecordCancelled ==
    /\ \E w \in Sockets :
          /\ sessions[w].pc = "cancelling"
          /\ sessions' =
                [sessions EXCEPT
                    ![w] = IF @.client_state = "CONNECTED"
                           THEN [send_json(@, "cancelled") EXCEPT
                                    !.pc = "cancelled",
                                    !.client_state = "DISCONNECTED"]
                           ELSE [@ EXCEPT !.pc = "cancelled"]]
    /\ UNCHANGED <<recorder, persisted>>
    /\ UNCHANGED not_rec

(* RemoteController.stop: cancel_recording without a new record.           *)
CancelRecording ==
    /\ recorder # None
    /\ sessions' = cancel_recording(sessions, recorder)
    /\ recorder' = None
    /\ UNCHANGED persisted
    /\ UNCHANGED not_rec

(* The client of a session in flight goes away.                            *)
ClientLeaves ==
    /\ \E w \in Sockets :
          /\ sessions[w].pc \in {"recording", "cancelling"}
          /\ sessions[w].client_state = "CONNECTED"
          /\ sessions' = [sessions EXCEPT ![w].client_state = "DISCONNECTED",
                                          ![w].left = TRUE]
    /\ UNCHANGED <<recorder, persisted>>
    /\ UNCHANGED not_rec

NextRec ==
    \/ RecordIrCommand
    \/ RecordDone
    \/ RecordCancelled
    \/ CancelRecording
    \/ ClientLeaves

SpecRec == Init /\ [][NextRec]_vars

(* How many Commands the session w has persisted.                          *)
PersistedBy(w) == Cardinality({k \in 1..Len(persisted) : persisted[k] = w})

(* C24: at most one recording is active at a time; a recording started     *)
(* while another is active cancels it: the client of the cancelled one     *)
(* receives `cancelled` as its last message and has its socket closed,     *)
(* and that session persists no Command; a recording that completes        *)
(* persists exactly one.                                                   *)
C24_OneRecordingAtATime ==
    /\ Cardinality({w \in Sockets : sessions[w].pc = "recording"}) <= 1
    /\ \A w \in Sockets :
          /\ sessions[w].pc = "recording" => recorder = w
          /\ sessions[w].pc \in {"cancelling", "cancelled"} =>
                PersistedBy(w) = 0
          /\ (sessions[w].pc = "cancelled" /\ ~sessions[w].left) =>
                /\ sessions[w].sent[Len(sessions[w].sent)] = "cancelled"
                /\ sessions[w].client_state = "DISCONNECTED"
          /\ sessions[w].pc = "done" => PersistedBy(w) = 1
    /\ Len(persisted) =
          Cardinality({w \in Sockets : sessions[w].pc = "done"})

(* A second recording has cancelled the first, whose client was told and   *)
(* closed, and has completed: one Command is in the store.                 *)
C24_Witness ==
    \E a, b \in Sockets :
        /\ sessions[a].pc = "cancelled"
        /\ sessions[a].sent = <<"recording_started", "cancelled">>
        /\ sessions[a].client_state = "DISCONNECTED"
        /\ ~sessions[a].left
        /\ sessions[b].pc = "done"
        /\ persisted = <<b>>

----------------------------------------------------------------------------
(* The real transition to scene s from the Status the last call found:     *)
(* start_scene, which stops the previous scene and starts s.               *)
RealTransition(s) == start_scene([Ctl(TRUE) EXCEPT !.status = last.pre], s)

(* The last call was set_current_scene of a scene of the store.            *)
SceneWasSet == last.op = "set_current_scene" /\ SceneExists(last.arg)

(* C25: from every reachable Status and for every scene s,                 *)
(* set_current_scene(s) ends in Active(s), with the DeviceState that the   *)
(* real transition (the previous scene stopped, s started) produces from   *)
(* the same Status when it completes.                                      *)
C25_SetSceneAsTransition ==
    SceneWasSet =>
        /\ exc = "none"
        /\ status.current_scene = last.arg
        /\ status.scene_status = "ACTIVE"
        /\ Ok(RealTransition(last.arg)) =>
              status.devices = RealTransition(last.arg).status.devices

----------------------------------------------------------------------------
(* What a listener of the status callback knows after the invocations of   *)
(* t from step k on, knowing st before them: each invocation carries the   *)
(* Status as the mutation before it left it.                               *)
RECURSIVE Replay(_, _, _)
Replay(st, t, k) ==
    IF k > Len(t) THEN st
    ELSE LET e == t[k]
             st1 == CASE e.ev = "status" ->
                            [st EXCEPT !.current_scene = e.id,
                                       !.scene_status = e.arg]
                       [] e.ev = "device" ->
                            [st EXCEPT !.devices[e.id].powered = (e.arg = "on")]
                       [] OTHER -> st
         IN Replay(st1, t, k + 1)

(* The part of Status the callback events of the trace carry.              *)
Visible(st) ==
    [current_scene |-> st.current_scene, scene_status |-> st.scene_status,
     powered |-> [d \in Devices |-> st.devices[d].powered]]

(* The invocations of the status callback in the last call.                *)
Callbacks == Events("status") \cup Events("device")

(* C26: with a status callback registered, every mutation of Status is     *)
(* followed by one invocation of the callback, made after the mutation     *)
(* and before the next one, with a Status that contains the mutation:      *)
(* the Status after a call is the Status before it with the invocations    *)
(* of the call applied in order.                                           *)
C26_CallbackAfterEveryMutation ==
    /\ Visible(Replay(last.pre, trace, 1)) = Visible(status)
    /\ Visible(status) # Visible(last.pre) => Callbacks # {}

(* A scene start that changed the scene, its status and a device, each     *)
(* with its invocation.                                                    *)
C26_Witness ==
    /\ last.op = "start_scene"
    /\ exc = "none"
    /\ status.scene_status = "ACTIVE"
    /\ \E d \in Devices : status.devices[d].powered # last.pre.devices[d].powered
    /\ Cardinality(Callbacks) >= 3

----------------------------------------------------------------------------
(* RfManager._start_listening: the loop that reads the payloads of the     *)
(* radio and calls the three callbacks.                                    *)
REMOTE_IDLE == 4195404          \* 0x40044c
REMOTE_SLEEP == 5178112         \* 0x4f0300
REMOTE_WOKE_UP == 5179136       \* 0x4f0700
REPEAT == 4194344               \* 0x400028
ALL_RELEASED == 5177348         \* 0x4f0004
RELEASED_BUTTON == 12648448     \* 0xc10000
RELEASED_BUTTON_2 == 12779520   \* 0xc30000

(* known_commands, read from config/remote_keymap.json: rf_command to key. *)
known_commands == [c \in {4260096, 4260352} |->
                      IF c = 4260096 THEN "Ok" ELSE "Play"]

(* An opcode that is in no table.                                          *)
UnexpectedCommand == 4259840

(* A payload of the remote for command cmd: 0x00 B1 B2 B3 and a tail.      *)
PayloadOf(cmd, tail) ==
    <<0, cmd \div 65536, (cmd \div 256) % 256, cmd % 256>> \o tail

Opcodes ==
    DOMAIN known_commands \cup
    {REMOTE_IDLE, REMOTE_SLEEP, REMOTE_WOKE_UP, REPEAT, ALL_RELEASED,
     RELEASED_BUTTON, RELEASED_BUTTON_2, UnexpectedCommand}

(* What rf.read returns: payloads of five and of six bytes, and one that   *)
(* is too short.                                                           *)
Payloads ==
    {PayloadOf(cmd, <<0>>) : cmd \in Opcodes} \cup
    {PayloadOf(REPEAT, <<7, 7>>), <<0, 65, 1>>}

(* lines 99-102: command = payload[1] payload[2] payload[3], big-endian.   *)
RECURSIVE command_of(_, _, _)
command_of(payload, i, command) ==
    IF i > 4 THEN command
    ELSE command_of(payload, i + 1, command * 256 + payload[i])

MaxPayloads == 4

(* One callback invocation: which callback, its argument, and the payload  *)
(* during whose processing it was made.                                    *)
Invocation(cb, arg, at) == [cb |-> cb, arg |-> arg, at |-> at]

(* One iteration of the loop with a payload available.                     *)
Listen ==
    /\ Len(payloads) < MaxPayloads
    /\ \E payload \in Payloads :
          LET at == Len(payloads) + 1
              command == command_of(payload, 2, 0)
          IN /\ payloads' = Append(payloads, payload)
             /\ IF Len(payload) < 5
                THEN UNCHANGED <<last_key, delivered>>
                ELSE IF command \in DOMAIN known_commands
                THEN /\ delivered' = Append(delivered,
                            Invocation("callback",
                                       Some(known_commands[command]), at))
                     /\ last_key' = Some(known_commands[command])
                ELSE IF command = REPEAT
                THEN /\ delivered' = Append(delivered,
                            Invocation("repeat_callback", last_key, at))
                     /\ UNCHANGED last_key
                ELSE IF command = ALL_RELEASED
                THEN /\ delivered' = Append(delivered,
                            Invocation("release_callback", last_key, at))
                     /\ UNCHANGED last_key
                ELSE UNCHANGED <<last_key, delivered>>
    /\ UNCHANGED not_rfl

NextRfl == Listen

SpecRfl == Init /\ [][NextRfl]_vars

(* cmd = (B1<<16)|(B2<<8)|B3 of the k-th payload read.                     *)
CmdAt(k) == payloads[k][2] * 65536 + payloads[k][3] * 256 + payloads[k][4]

(* The k-th payload read is a press of a button of the keymap.             *)
PressAt(k) == Len(payloads[k]) >= 5 /\ CmdAt(k) \in DOMAIN known_commands

(* The button pressed last before the k-th payload, if any.                *)
LastPressed(k) ==
    LET before == {j \in 1..(k - 1) : PressAt(j)}
    IN IF before = {} THEN Nothing
       ELSE LET j == CHOOSE i \in before : \A h \in before : h <= i
            IN Some(known_commands[CmdAt(j)])

(* The callbacks made for the k-th payload, in order.                      *)
DeliveredAt(k) == SelectSeq(delivered, LAMBDA e : e.at = k)

(* The callbacks the classification table gives the k-th payload; on a     *)
(* repeat without a prior press the table names no argument.               *)
ClassifiedAt(k) ==
    IF Len(payloads[k]) < 5 THEN <<>>
    ELSE IF PressAt(k)
         THEN <<Invocation("callback", Some(known_commands[CmdAt(k)]), k)>>
    ELSE IF CmdAt(k) = REPEAT
         THEN <<Invocation("repeat_callback", LastPressed(k), k)>>
    ELSE IF CmdAt(k) = ALL_RELEASED
         THEN <<Invocation("release_callback", LastPressed(k), k)>>
    ELSE <<>>

(* C27: each payload read is classified by cmd = (B1<<16)|(B2<<8)|B3: a    *)
(* keymap opcode makes one on_press with its button, which becomes the     *)
(* last key; 0x400028 makes one on_repeat with the last pressed button,    *)
(* which is a button; 0x4f0004 makes one on_release with the last pressed  *)
(* button or with null when nothing was pressed before; 0x40044c,          *)
(* 0xc10000 and 0xc30000 make no callback; the callbacks are made in the   *)
(* order of arrival.                                                       *)
C27_ListenerClassifies ==
    /\ \A k \in 1..Len(payloads) :
          /\ DeliveredAt(k) = ClassifiedAt(k)
          /\ \A i \in 1..Len(DeliveredAt(k)) :
                DeliveredAt(k)[i].cb = "repeat_callback" =>
                    DeliveredAt(k)[i].arg # Nothing
    /\ \A i, j \in 1..Len(delivered) : i < j => delivered[i].at <= delivered[j].at
    /\ last_key = LastPressed(Len(payloads) + 1)

----------------------------------------------------------------------------
(* POST /commands: create_command.  A request body is a CommandBase: its   *)
(* type, the payload fields that are populated (truthy), the value of      *)
(* integration_action and the device it refers to.                         *)
CommandTypes == {"IR", "BLUETOOTH", "NETWORK", "SCRIPT", "INTEGRATION"}

PayloadFields ==
    {"ir_action", "host", "method", "body", "bt_action", "bt_media_action",
     "integration_action", "integration_entity"}

IntegrationActions == {"TOGGLE_LIGHT", "BRIGHTNESS_UP", "BRIGHTNESS_DOWN"}

CommandBase(type, populated, integration_action, device_id) ==
    [type |-> type, populated |-> populated,
     integration_action |-> integration_action, device_id |-> device_id]

(* The payload fields the classification of the data model gives a type.   *)
PayloadOfType(type) ==
    CASE type = "IR" -> {"ir_action"}
      [] type = "BLUETOOTH" -> {"bt_action", "bt_media_action"}
      [] type = "NETWORK" -> {"host", "method", "body"}
      [] type = "INTEGRATION" -> {"integration_action", "integration_entity"}
      [] OTHER -> {}

(* The request bodies sent: every type with every set of at most three     *)
(* populated payload fields.                                               *)
MaxPopulated == 3
UnknownDevice == Cardinality(Devices) + 1

Requests ==
    {CommandBase(type, populated, action, device_id) :
        type \in CommandTypes,
        populated \in {f \in SUBSET PayloadFields : Cardinality(f) <= MaxPopulated},
        action \in IntegrationActions,
        device_id \in {None, 1, UnknownDevice}}

(* create_command, lines 21-38: the status of the response.                *)
create_command(command) ==
    LET has(field) == field \in command.populated
        integration_action ==
            IF has("integration_action") THEN command.integration_action
            ELSE NoName
    IN IF command.type = "IR" /\ ~has("ir_action") THEN 400
       ELSE IF command.type = "NETWORK" /\ ~has("host") THEN 400
       ELSE IF command.type = "NETWORK" /\ ~has("method") THEN 400
       ELSE IF /\ command.type = "BLUETOOTH"
               /\ ~has("bt_action")
               /\ ~has("bt_media_action") THEN 400
       ELSE IF command.type = "INTEGRATION" /\ ~has("integration_action")
            THEN 400
       ELSE IF integration_action = "TOGGLE_LIGHT" /\ ~has("integration_entity")
            THEN 400
       ELSE IF command.device_id # None /\ command.device_id \notin Devices
            THEN 400
       ELSE 200

MaxCommands == 1

(* One POST /commands: the row is added when no check raised.              *)
CreateCommand ==
    /\ Len(db_commands) < MaxCommands
    /\ \E command \in Requests :
          /\ response' = [status_code |-> create_command(command),
                          populated |-> command.populated]
          /\ db_commands' = IF create_command(command) = 200
                            THEN Append(db_commands, command)
                            ELSE db_commands
    /\ UNCHANGED not_cmd

NextCmd == CreateCommand

SpecCmd == Init /\ [][NextCmd]_vars

(* The transport payload of C is populated exactly for its type.           *)
PopulatedExactly(C) ==
    LET has(field) == field \in C.populated
    IN /\ C.populated \subseteq PayloadOfType(C.type)
       /\ CASE C.type = "IR" -> has("ir_action")
            [] C.type = "BLUETOOTH" ->
                   has("bt_action") # has("bt_media_action")
            [] C.type = "NETWORK" -> has("host") /\ has("method")
            [] C.type = "INTEGRATION" ->
                   /\ has("integration_action")
                   /\ has("integration_entity") <=>
                          C.integration_action = "TOGGLE_LIGHT"
            [] OTHER -> TRUE

(* C28: every Command that POST /commands accepted and persisted has the   *)
(* payload fields of its type populated and no payload field of another    *)
(* type.                                                                   *)
C28_PayloadExactlyForType ==
    \A k \in 1..Len(db_commands) : PopulatedExactly(db_commands[k])

----------------------------------------------------------------------------
(* IrManager/IrProtocolDetector.py.  Tolerances are in percent and a       *)
(* confidence is the fraction num / den, so that no rounding is modelled.  *)
Frac(num, den) == [num |-> num, den |-> den]

(* a / b >= p / q                                                          *)
AtLeast(f, p, q) == f.num * q >= p * f.den

(* _approx: target * (1 - tolerance) <= value <= target * (1 + tolerance)  *)
approx(value, target, tolerance) ==
    /\ target * (100 - tolerance) <= 100 * value
    /\ 100 * value <= target * (100 + tolerance)

(* _match_ratio: the fraction of the values that are about the target.     *)
match_ratio(values, target, tolerance) ==
    IF values = <<>> THEN Frac(0, 1)
    ELSE Frac(Cardinality({k \in 1..Len(values) :
                              approx(values[k], target, tolerance)}),
              Len(values))

(* code[0::2] and code[1::2]                                               *)
EvenSlice(xs) == [k \in 1..((Len(xs) + 1) \div 2) |-> xs[2 * k - 1]]
OddSlice(xs) == [k \in 1..(Len(xs) \div 2) |-> xs[2 * k]]

(* min(1.0, (a + max(b0, b1)) / 2.0); b0 and b1 are over the same values.  *)
mean_confidence(a, b0, b1) ==
    LET b == IF b0.num >= b1.num THEN b0 ELSE b1
        f == Frac(a.num * b.den + b.num * a.den, 2 * a.den * b.den)
    IN IF f.num > f.den THEN Frac(1, 1) ELSE f

Detection(protocol, confidence) ==
    [protocol |-> protocol, confidence |-> confidence]

(* detect_protocol                                                         *)
detect_protocol(code) ==
    IF Len(code) < 4 THEN Detection("unknown", Frac(0, 1))
    ELSE LET header_mark == code[1]
             header_space == code[2]
             body == SubSeq(code, 3, Len(code))
             marks == EvenSlice(body)
             spaces == OddSlice(body)
         IN IF approx(header_mark, 9000, 20) /\ approx(header_space, 4500, 25)
            THEN Detection("NEC",
                     mean_confidence(match_ratio(marks, 560, 35),
                                     match_ratio(spaces, 560, 35),
                                     match_ratio(spaces, 1690, 35)))
            ELSE IF approx(header_mark, 9000, 20) /\ approx(header_space, 2250, 30)
            THEN Detection("NEC_REPEAT", Frac(8, 10))
            ELSE IF approx(header_mark, 8000, 20) /\ approx(header_space, 4000, 25)
            THEN Detection("JVC",
                     mean_confidence(match_ratio(marks, 560, 35),
                                     match_ratio(spaces, 560, 35),
                                     match_ratio(spaces, 1690, 35)))
            ELSE IF approx(header_mark, 2400, 25) /\ approx(header_space, 600, 30)
            THEN Detection("SONY_SIRC",
                     mean_confidence(match_ratio(spaces, 600, 35),
                                     match_ratio(marks, 600, 35),
                                     match_ratio(marks, 1200, 35)))
            ELSE IF approx(header_mark, 2666, 35) \/ approx(header_mark, 889, 35)
            THEN Detection("RC5/RC6", Frac(5, 10))
            ELSE IF approx(header_mark, 3200, 30) /\ approx(header_space, 1600, 30)
            THEN Detection("DENON/SHARP",
                     mean_confidence(match_ratio(marks, 400, 40),
                                     match_ratio(spaces, 400, 40),
                                     match_ratio(spaces, 1200, 40)))
            ELSE Detection("unknown", Frac(0, 1))

----------------------------------------------------------------------------
(* IrManager/IrCodeDecoder.py.  A confidence is in hundredths.             *)
TOLERANCE == 25

(* _match_timing: expected - margin <= actual <= expected + margin         *)
match_timing(actual, expected, tolerance) ==
    /\ expected * (100 - tolerance) <= 100 * actual
    /\ 100 * actual <= expected * (100 + tolerance)

(* _extract_bits from index i on: a long space is 1, a short space is 0,   *)
(* a space that is neither gives no bit.                                   *)
RECURSIVE extract_bits(_, _, _, _, _)
extract_bits(marks_spaces, i, short_mark, short_space, long_space) ==
    IF i > Len(marks_spaces) THEN <<>>
    ELSE LET space == marks_spaces[i]
             bit == IF match_timing(space, long_space, TOLERANCE) THEN <<1>>
                    ELSE IF match_timing(space, short_space, TOLERANCE)
                         THEN <<0>>
                         ELSE <<>>
         IN bit \o extract_bits(marks_spaces, i + 2, short_mark, short_space,
                                long_space)

(* _bits_to_int: result |= bit << i                                        *)
RECURSIVE bits_to_int(_)
bits_to_int(bits) ==
    IF bits = <<>> THEN 0
    ELSE bits[1] + 2 * bits_to_int(Tail(bits))

DecodedIRCode(protocol, confidence, device_bits, command_bits) ==
    [protocol |-> protocol, confidence |-> confidence,
     device_bits |-> device_bits, command_bits |-> command_bits]

(* _try_nec; a ^ b == 0xFF for two bytes is a + b = 255.                   *)
try_nec(code) ==
    IF Len(code) < 67 THEN DecodedIRCode("nec", 0, 0, 0)
    ELSE IF ~match_timing(code[1], 9000, TOLERANCE)
         THEN DecodedIRCode("nec", 0, 0, 0)
    ELSE IF ~match_timing(code[2], 4500, TOLERANCE)
         THEN DecodedIRCode("nec", 0, 0, 0)
    ELSE LET bits == extract_bits(SubSeq(code, 3, Len(code)), 2, 560, 560, 1690)
         IN IF Len(bits) < 32 THEN DecodedIRCode("nec", 50, 0, 0)
            ELSE LET device_val == bits_to_int(SubSeq(bits, 1, 8))
                     command_val == bits_to_int(SubSeq(bits, 17, 24))
                     device_check ==
                         device_val + bits_to_int(SubSeq(bits, 9, 16)) = 255
                     command_check ==
                         command_val + bits_to_int(SubSeq(bits, 25, 32)) = 255
                 IN DecodedIRCode("nec",
                        IF device_check /\ command_check THEN 90 ELSE 75,
                        device_val, command_val)

(* _try_jvc                                                                *)
try_jvc(code) ==
    IF Len(code) < 4 THEN DecodedIRCode("jvc", 0, 0, 0)
    ELSE IF /\ match_timing(code[1], 8400, TOLERANCE)
            /\ match_timing(code[2], 4200, TOLERANCE)
         THEN DecodedIRCode("jvc", 70, 0, 0)
         ELSE DecodedIRCode("jvc", 0, 0, 0)

(* max(valid, key=confidence): the first of the highest confidence.        *)
best_of(candidates) ==
    LET top == CHOOSE k \in 1..Len(candidates) :
                   /\ \A j \in 1..Len(candidates) :
                         candidates[j].confidence <= candidates[k].confidence
                   /\ \A j \in 1..(k - 1) :
                         candidates[j].confidence < candidates[k].confidence
    IN candidates[top]

(* IRCodeDecoder.decode: the other four strategies return confidence 0.    *)
decode(code) ==
    IF Len(code) < 4 THEN DecodedIRCode("unknown", 0, 0, 0)
    ELSE LET candidates ==
                 <<try_nec(code),
                   DecodedIRCode("nec_ext", 0, 0, 0),
                   try_jvc(code),
                   DecodedIRCode("sony_sirc", 0, 0, 0),
                   DecodedIRCode("rc5", 0, 0, 0),
                   DecodedIRCode("rc6", 0, 0, 0)>>
             valid == SelectSeq(candidates, LAMBDA c : c.confidence > 0)
         IN IF valid # <<>> THEN best_of(valid)
            ELSE DecodedIRCode("unknown", 0, 0, 0)

----------------------------------------------------------------------------
(* The frames captured: NEC frames as a transmitter sends them.            *)
Timings == {"nominal", "measured"}

(* header mark, header space, mark, short space, long space, in us; the    *)
(* measured timing is that of the sample frame of the specification.       *)
TimingOf(t) ==
    IF t = "nominal" THEN <<9000, 4500, 560, 560, 1690>>
    ELSE <<9035, 4440, 611, 515, 1633>>

ByteSamples == {0, 1, 6, 191, 255}

(* The k-th data bit of the four bytes, the lowest bit of a byte first.    *)
BitOf(bytes, k) == (bytes[((k - 1) \div 8) + 1] \div (2 ^ ((k - 1) % 8))) % 2

(* The pulse array of a frame of nbits data bits: header, a mark and a     *)
(* space per bit, and the trailing mark.                                   *)
PulsesOf(frame) ==
    LET t == TimingOf(frame.timing)
    IN [k \in 1..(2 * frame.nbits + 3) |->
          IF k = 1 THEN t[1]
          ELSE IF k = 2 THEN t[2]
          ELSE IF k % 2 = 1 THEN t[3]
          ELSE IF BitOf(frame.bytes, (k - 2) \div 2) = 1 THEN t[5] ELSE t[4]]

(* Frames with and without the inverse bytes, whole and cut short.         *)
Frames ==
    {[bytes |-> <<d, IF di THEN 255 - d ELSE d, c, IF ci THEN 255 - c ELSE c>>,
      timing |-> t, nbits |-> n] :
        d \in ByteSamples, c \in ByteSamples, di \in BOOLEAN, ci \in BOOLEAN,
        t \in Timings, n \in {32, 12, 1}}

(* The receiver hands over a captured pulse array.                         *)
Capture ==
    /\ \E frame \in Frames :
          /\ ir_frame' = frame
          /\ ir_code' = PulsesOf(frame)
    /\ detected' = NoDetection
    /\ decoded' = NoDecoded
    /\ UNCHANGED not_ir

(* detect_protocol(code), as create and record call it.                    *)
Detect ==
    /\ ir_code # <<>>
    /\ detected = NoDetection
    /\ detected' = detect_protocol(ir_code)
    /\ UNCHANGED <<ir_frame, ir_code, decoded>>
    /\ UNCHANGED not_ir

(* IRCodeDecoder().decode(code)                                            *)
Decode ==
    /\ ir_code # <<>>
    /\ decoded = NoDecoded
    /\ decoded' = decode(ir_code)
    /\ UNCHANGED <<ir_frame, ir_code, detected>>
    /\ UNCHANGED not_ir

NextIr ==
    \/ Capture
    \/ Detect
    \/ Decode

SpecIr == Init /\ [][NextIr]_vars

(* The 67-element sample of the specification.                             *)
SampleFrame ==
    <<9035, 4440, 611, 1633,
      611, 515, 611, 515, 611, 515, 611, 515, 611, 515, 611, 515, 611, 515,
      611, 515,
      611, 1633, 611, 1633, 611, 1633, 611, 1633, 611, 1633, 611, 1633,
      611, 1633,
      611, 515, 611, 1633, 611, 1633, 611, 515, 611, 515, 611, 515, 611, 515,
      611, 515,
      611, 1633, 611, 515, 611, 515, 611, 1633, 611, 1633, 611, 1633,
      611, 1633, 611, 1633, 611>>

(* C29: for every well-formed NEC frame (header, 32 data bits, trailing    *)
(* mark), the sample of the specification among them, detect_protocol      *)
(* returns NEC with a confidence of at least 0.85.                         *)
C29_DetectsNec ==
    (detected # NoDetection /\ ir_frame.nbits = 32) =>
        /\ detected.protocol = "NEC"
        /\ AtLeast(detected.confidence, 85, 100)

(* The frame has its inverse bytes.                                        *)
InversesHold(frame) ==
    /\ frame.bytes[1] + frame.bytes[2] = 255
    /\ frame.bytes[3] + frame.bytes[4] = 255

(* C30: a pulse array with a NEC header and 32 data bits is decoded as     *)
(* NEC with the device and the command read LSB-first from the first and   *)
(* the third byte, with confidence 0.9 when both inverse bytes hold and    *)
(* 0.75 otherwise; a NEC frame too short for 32 bits is decoded as NEC     *)
(* with confidence 0.5.                                                    *)
C30_DecodesNec ==
    decoded # NoDecoded =>
        /\ decoded.protocol = "nec"
        /\ ir_frame.nbits = 32 =>
              /\ decoded.device_bits = ir_frame.bytes[1]
              /\ decoded.command_bits = ir_frame.bytes[3]
              /\ decoded.confidence = IF InversesHold(ir_frame) THEN 90 ELSE 75
        /\ ir_frame.nbits < 32 => decoded.confidence = 50

----------------------------------------------------------------------------
(* HaManager/HaManager.py.  h is the manager during one operation: the     *)
(* light set last, the HTTP calls issued, the errors logged and whether    *)
(* an exception left the operation.                                        *)
Entities == {"light.desk", "light.sofa"}

(* What client.post and resp.raise_for_status do: return, or raise         *)
(* HTTPStatusError or a RequestError, both of them httpx.HTTPError.        *)
HTTPError == {"HTTPStatusError", "RequestError"}
HttpOutcomes == {"ok"} \cup HTTPError

HaCall(service, entity_id, brightness_step_pct, outcome) ==
    [service |-> service, entity_id |-> entity_id,
     brightness_step_pct |-> brightness_step_pct, outcome |-> outcome]

(* _call_service: the POST, and the except clause for httpx.HTTPError.     *)
call_service(h, service, entity_id, brightness_step_pct, outcome) ==
    [h EXCEPT !.calls = Append(@, HaCall(service, entity_id,
                                         brightness_step_pct, outcome)),
              !.logged = IF outcome \in HTTPError THEN @ + 1 ELSE @,
              !.raised = outcome \notin HTTPError /\ outcome # "ok"]

(* toggle_light                                                            *)
toggle_light(h, entity_id, outcome) ==
    [call_service(h, "toggle", Some(entity_id), 0, outcome)
        EXCEPT !.last_light_id = Some(entity_id)]

(* A variant of _turn_on without the test of last_light_id.                *)
turn_on_unguarded(h, brightness_step_pct, outcome) ==
    call_service(h, "turn_on", h.last_light_id, brightness_step_pct, outcome)

(* _turn_on                                                                *)
turn_on(h, brightness_step_pct, outcome) ==
    IF h.last_light_id = Nothing THEN h
    ELSE call_service(h, "turn_on", h.last_light_id, brightness_step_pct,
                      outcome)

increase_brightness(h, outcome) == turn_on(h, 10, outcome)

decrease_brightness(h, outcome) == turn_on(h, 0 - 10, outcome)

MaxHaOps == 3

Ha == [last_light_id |-> last_light_id, calls |-> <<>>, logged |-> 0,
       raised |-> FALSE]

(* One operation of the manager, as send_integration_command calls it:     *)
(* op is recorded with the calls it issued.                                *)
HaReturn(h, op, entity_id) ==
    /\ last_light_id' = h.last_light_id
    /\ ha_ops' = Append(ha_ops, [op |-> op, entity_id |-> entity_id])
    /\ ha_calls' = Append(ha_calls, h.calls)
    /\ ha_raised' = h.raised
    /\ UNCHANGED not_ha

ToggleLight ==
    /\ Len(ha_ops) < MaxHaOps
    /\ \E entity_id \in Entities, outcome \in HttpOutcomes :
          HaReturn(toggle_light(Ha, entity_id, outcome), "toggle_light",
                   Some(entity_id))

IncreaseBrightness ==
    /\ Len(ha_ops) < MaxHaOps
    /\ \E outcome \in HttpOutcomes :
          HaReturn(increase_brightness(Ha, outcome), "increase_brightness",
                   Nothing)

DecreaseBrightness ==
    /\ Len(ha_ops) < MaxHaOps
    /\ \E outcome \in HttpOutcomes :
          HaReturn(decrease_brightness(Ha, outcome), "decrease_brightness",
                   Nothing)

NextHa ==
    \/ ToggleLight
    \/ IncreaseBrightness
    \/ DecreaseBrightness

SpecHa == Init /\ [][NextHa]_vars

(* The entity of the most recent toggle_light before the k-th operation.   *)
LastToggled(k) ==
    LET before == {j \in 1..(k - 1) : ha_ops[j].op = "toggle_light"}
    IN IF before = {} THEN Nothing
       ELSE ha_ops[CHOOSE i \in before : \A j \in before : j <= i].entity_id

(* The service, entity and step of the calls the k-th operation issued.    *)
IssuedAt(k) ==
    [i \in 1..Len(ha_calls[k]) |->
        <<ha_calls[k][i].service, ha_calls[k][i].entity_id,
          ha_calls[k][i].brightness_step_pct>>]

(* C31: increase_brightness and decrease_brightness issue one light        *)
(* turn_on call with a step of +10 / -10 percent for the entity of the     *)
(* most recent toggle_light, and no call when toggle_light was never       *)
(* called; no operation lets an HTTP error out.                            *)
C31_BrightnessFollowsLastToggle ==
    /\ ~ha_raised
    /\ \A k \in 1..Len(ha_ops) :
          CASE ha_ops[k].op = "toggle_light" ->
                  IssuedAt(k) = <<<<"toggle", ha_ops[k].entity_id, 0>>>>
            [] ha_ops[k].op = "increase_brightness" ->
                  IssuedAt(k) = IF LastToggled(k) = Nothing THEN <<>>
                                ELSE <<<<"turn_on", LastToggled(k), 10>>>>
            [] ha_ops[k].op = "decrease_brightness" ->
                  IssuedAt(k) = IF LastToggled(k) = Nothing THEN <<>>
                                ELSE <<<<"turn_on", LastToggled(k), 0 - 10>>>>

(* A brightness change before any toggle issued nothing; after two         *)
(* toggles, one of which failed, the next one went to the later light.     *)
C31_Witness ==
    /\ Len(ha_ops) = 3
    /\ ha_ops[1].op = "toggle_light"
    /\ ha_ops[2].op = "toggle_light"
    /\ ha_ops[2].entity_id # ha_ops[1].entity_id
    /\ ha_calls[2][1].outcome # "ok"
    /\ ha_ops[3].op = "decrease_brightness"
    /\ IssuedAt(3) = <<<<"turn_on", ha_ops[2].entity_id, 0 - 10>>>>
    /\ ha_calls[3][1].outcome = "HTTPStatusError"

----------------------------------------------------------------------------
(* The last call was start_scene of a scene of the store, from Idle.       *)
StartFromIdle ==
    /\ last.op = "start_scene"
    /\ SceneExists(last.arg)
    /\ last.pre.current_scene = None

(* Where the trace of the last call publishes scene_status st for its      *)
(* scene.                                                                  *)
PublishedAt(st) ==
    {k \in Events("status") : trace[k] = Ev("status", last.arg, st)}

(* The steps of a macro the last call has dispatched: a command handed to  *)
(* send_db_command, or an id the store does not know.                      *)
StepsAt == Events("dispatch") \cup Events("unknown")

(* The number of steps of the start macro of scene s.                      *)
StartMacroLen(s) ==
    IF GetScene(s).start_macro = None THEN 0
    ELSE Len(MacroTable[GetScene(s).start_macro].command_ids)

(* C32: during start_scene(s) from Idle, STARTING for s is published       *)
(* before any command of the start macro is dispatched or emitted, and     *)
(* ACTIVE for s is published only after every step of the start macro      *)
(* has been dispatched and the keymap of the scene has been loaded.        *)
C32_StartingMacroKeymapActive ==
    StartFromIdle =>
        /\ Cardinality(PublishedAt("STARTING")) = 1
        /\ \A k \in StepsAt \cup Events("emit") :
              \A j \in PublishedAt("STARTING") : j < k
        /\ \A a \in PublishedAt("ACTIVE") :
              /\ Cardinality({k \in StepsAt : k < a}) = StartMacroLen(last.arg)
              /\ \A j \in PublishedAt("STARTING") : j < a
              /\ GetScene(last.arg).keymap # NoName =>
                    \E k \in 1..(a - 1) :
                        trace[k] = Ev("keymap", 0, GetScene(last.arg).keymap)
              /\ a = Len(trace)

(* A scene with a keymap and a start macro was started from Idle, its      *)
(* commands were emitted and it became ACTIVE.                             *)
C32_Witness ==
    /\ StartFromIdle
    /\ GetScene(last.arg).keymap # NoName
    /\ Events("emit") # {}
    /\ PublishedAt("ACTIVE") # {}
    /\ status.scene_status = "ACTIVE"

----------------------------------------------------------------------------
(* RemoteController.cached_commands.  The cache is Nothing while the       *)
(* attribute is None (line 50) and Some(ids) once it is a dict; a cache    *)
(* operation returns the cache, the exception that left it and the command *)
(* handed to send_db_command.                                              *)
CacheResult(cached, exception, sent) ==
    [cached |-> cached, exc |-> exception, sent |-> sent]

(* load_key_map, lines 450-466: both files are opened before the cache is  *)
(* replaced.                                                               *)
cache_load_key_map(cached, keymap_name, present) ==
    IF "keymap_scenes" \notin present \/ KeymapPath(keymap_name) \notin present
    THEN CacheResult(cached, "FileNotFoundError", Nothing)
    ELSE CacheResult(Some(KeymapCommands(keymap_name)), "none", Nothing)

(* create, lines 72-75: load_key_map() inside try / except                 *)
(* FileNotFoundError, on a new object.                                     *)
cache_create(present) ==
    [cache_load_key_map(Nothing, "default", present) EXCEPT !.exc = "none"]

(* send_command, lines 187-201: cached_commands.get, then the store.       *)
cache_send_command(cached, command_id) ==
    IF cached = Nothing THEN CacheResult(cached, "AttributeError", Nothing)
    ELSE IF command_id \in cached[1]
         THEN CacheResult(cached, "none", Some(command_id))
         ELSE IF CommandExists(command_id)
              THEN CacheResult(Some(cached[1] \cup {command_id}), "none",
                               Some(command_id))
              ELSE CacheResult(cached, "none", Nothing)

(* The commands sent in this part of the model.                            *)
SentIds == {1, 5, 6, 8, UnknownCommand}

CacheReturn(r, op, arg) ==
    /\ cached_commands' = r.cached
    /\ cache_last' = [op |-> op, arg |-> arg, pre |-> cached_commands,
                      exc |-> r.exc, sent |-> r.sent]
    /\ UNCHANGED not_cache

(* The process starts: create with the files that config/ holds then.      *)
CreateController ==
    \E present \in SUBSET ConfigFiles :
        CacheReturn(cache_create(present), "create", None)

(* load_key_map as start_scene, set_current_scene and stop_current_scene   *)
(* call it.                                                                *)
LoadKeyMap ==
    \E keymap_name \in {"default", "b"}, present \in SUBSET ConfigFiles :
        CacheReturn(cache_load_key_map(cached_commands, keymap_name, present),
                    "load_key_map", keymap_name)

CachedSendCommand ==
    \E command_id \in SentIds :
        CacheReturn(cache_send_command(cached_commands, command_id),
                    "send_command", command_id)

NextCache ==
    \/ CreateController
    \/ LoadKeyMap
    \/ CachedSendCommand

SpecCache == Init /\ [][NextCache]_vars

(* The ids in a cache; none while the attribute is None.                   *)
CachedIds(cached) == IF cached = Nothing THEN {} ELSE cached[1]

(* C33: in every state the controller can be in, also after a boot that    *)
(* found no keymap, send_command of an id that is not cached fetches the   *)
(* command from the store, adds it to the cache and dispatches it, or, for *)
(* an id the store does not have, sends nothing and adds nothing; and only *)
(* a keymap load removes an entry.                                         *)
C33_CacheReadThrough ==
    /\ cache_last.op = "send_command"
          /\ cache_last.arg \notin CachedIds(cache_last.pre) =>
          IF CommandExists(cache_last.arg)
          THEN /\ cache_last.sent = Some(cache_last.arg)
               /\ cached_commands # Nothing
               /\ CachedIds(cached_commands) =
                      CachedIds(cache_last.pre) \cup {cache_last.arg}
          ELSE /\ cache_last.sent = Nothing
               /\ CachedIds(cached_commands) = CachedIds(cache_last.pre)
    /\ cache_last.op = "send_command" =>
          CachedIds(cache_last.pre) \subseteq CachedIds(cached_commands)

(* C33 for the states in which a keymap has been loaded: the part of the   *)
(* property that the code keeps.                                           *)
C33_ReadThroughOnceLoaded ==
    cache_last.pre # Nothing => C33_CacheReadThrough

(* A command of the store was sent after a boot without a keymap.          *)
C33_SentWithoutCache ==
    /\ cache_last.op = "send_command"
    /\ cache_last.pre = Nothing
    /\ CommandExists(cache_last.arg)
    /\ cache_last.exc = "AttributeError"
    /\ cache_last.sent = Nothing

----------------------------------------------------------------------------
(* BleKeyboard/BleKeyboard.py with HidService.py and KeymapHelper.py.      *)
TARGET_LENGTH == 6

(* KeymapHelper.KEY_TABLE and MEDIA_KEYS, a part of each.                  *)
KEY_TABLE == [KEY_RESERVED |-> 0, KEY_ESC |-> 41, KEY_1 |-> 30]

MEDIA_KEYS == [KEY_PLAY |-> <<1, 0>>, KEY_MENU |-> <<0, 1>>,
               KEY_AC_HOME |-> <<0, 128>>]

(* The key descriptors passed in: keys of the tables, a descriptor that    *)
(* is in neither, and the empty one.                                       *)
KeyStrs == DOMAIN KEY_TABLE \cup {"KEY_NONE", ""}
MediaKeyStrs == DOMAIN MEDIA_KEYS \cup {"KEY_NONE", ""}

Zeros(n) == [i \in 1..n |-> 0]

to_ord_key(key_str) ==
    IF key_str \in DOMAIN KEY_TABLE THEN KEY_TABLE[key_str] ELSE 0 - 1

(* update_ord_keys(ord_key, 1) on the list pressed: the key goes first,    *)
(* the list is cut or filled with zeros to TARGET_LENGTH.                  *)
update_ord_keys(pressed, ord_key) ==
    LET inserted == IF \E i \in 1..Len(pressed) : pressed[i] = ord_key
                    THEN pressed ELSE <<ord_key>> \o pressed
    IN IF Len(inserted) > TARGET_LENGTH
       THEN SubSeq(inserted, 1, TARGET_LENGTH)
       ELSE inserted \o Zeros(TARGET_LENGTH - Len(inserted))

(* create_keycode(ord_key_str): no modifier; encode_keys is                *)
(* [mod_keys, 0, *pressed_keys].                                           *)
create_keycode(ord_key_str) ==
    IF ord_key_str = "" THEN Zeros(8)
    ELSE LET ord_key == to_ord_key(ord_key_str)
             pressed == IF ord_key # 0 - 1 THEN update_ord_keys(<<>>, ord_key)
                        ELSE <<>>
         IN <<0, 0>> \o pressed

create_media_keycode(media_key_str) ==
    IF media_key_str \in DOMAIN MEDIA_KEYS THEN MEDIA_KEYS[media_key_str]
    ELSE <<0, 0>>

(* k is the keyboard during one call: the two lists of BleKeyboard and     *)
(* the value each report characteristic was notified with last.            *)
Kbd == [pressed_keys |-> kb_pressed_keys,
        pressed_media_keys |-> kb_pressed_media_keys,
        report1 |-> report1, report2 |-> report2]

(* HidService.update_pressed_keys / update_pressed_media_keys              *)
update_pressed_keys(k, new_state) == [k EXCEPT !.report1 = Some(new_state)]

update_pressed_media_keys(k, new_state) ==
    [k EXCEPT !.report2 = Some(new_state)]

release_keys(k) ==
    IF k.pressed_keys # <<>>
    THEN [update_pressed_keys(k, Zeros(8)) EXCEPT !.pressed_keys = <<>>]
    ELSE k

(* A variant of press_key that does not release first.                     *)
press_key_on_top(k, key_str) ==
    LET key == create_keycode(key_str)
    IN IF key # <<>>
       THEN update_pressed_keys(
                [k EXCEPT !.pressed_keys = Append(@, key)], key)
       ELSE k

press_key(k, key_str) ==
    LET key == create_keycode(key_str)
    IN IF key # <<>>
       THEN update_pressed_keys(
                [release_keys(k) EXCEPT !.pressed_keys = Append(@, key)], key)
       ELSE k

release_media_keys(k) ==
    IF k.pressed_media_keys # <<>>
    THEN [update_pressed_media_keys(k, Zeros(2))
             EXCEPT !.pressed_media_keys = <<>>]
    ELSE k

press_media_key(k, key_str) ==
    LET key == create_media_keycode(key_str)
    IN IF key # <<>>
       THEN update_pressed_media_keys(
                [release_media_keys(k)
                    EXCEPT !.pressed_media_keys = Append(@, key)], key)
       ELSE k

(* The most send_key and send_media_key calls asleep at a time, each.      *)
MaxSleeping == 2

KbdReturn(k, op, key_str, sleeping) ==
    /\ kb_pressed_keys' = k.pressed_keys
    /\ kb_pressed_media_keys' = k.pressed_media_keys
    /\ report1' = k.report1
    /\ report2' = k.report2
    /\ kb_sleeping' = sleeping
    /\ kb_last' = [op |-> op, key_str |-> key_str]
    /\ UNCHANGED not_kbd

PressKey ==
    \E key_str \in KeyStrs :
        KbdReturn(press_key(Kbd, key_str), "press_key", key_str, kb_sleeping)

ReleaseKeys == KbdReturn(release_keys(Kbd), "release_keys", "", kb_sleeping)

(* send_key up to its await asyncio.sleep(delay).                          *)
SendKey ==
    /\ kb_sleeping.key < MaxSleeping
    /\ \E key_str \in KeyStrs :
          KbdReturn(press_key(Kbd, key_str), "press_key", key_str,
                    [kb_sleeping EXCEPT !.key = @ + 1])

(* A send_key wakes up and releases.                                       *)
SendKeyDone ==
    /\ kb_sleeping.key > 0
    /\ KbdReturn(release_keys(Kbd), "release_keys", "",
                 [kb_sleeping EXCEPT !.key = @ - 1])

PressMediaKey ==
    \E key_str \in MediaKeyStrs :
        KbdReturn(press_media_key(Kbd, key_str), "press_media_key", key_str,
                  kb_sleeping)

ReleaseMediaKeys ==
    KbdReturn(release_media_keys(Kbd), "release_media_keys", "", kb_sleeping)

SendMediaKey ==
    /\ kb_sleeping.media < MaxSleeping
    /\ \E key_str \in MediaKeyStrs :
          KbdReturn(press_media_key(Kbd, key_str), "press_media_key", key_str,
                    [kb_sleeping EXCEPT !.media = @ + 1])

SendMediaKeyDone ==
    /\ kb_sleeping.media > 0
    /\ KbdReturn(release_media_keys(Kbd), "release_media_keys", "",
                 [kb_sleeping EXCEPT !.media = @ - 1])

NextKbd ==
    \/ PressKey
    \/ ReleaseKeys
    \/ SendKey
    \/ SendKeyDone
    \/ PressMediaKey
    \/ ReleaseMediaKeys
    \/ SendMediaKey
    \/ SendMediaKeyDone

SpecKbd == Init /\ [][NextKbd]_vars

(* C34: the keyboard holds at most one key and at most one media key at a  *)
(* time; when release_keys has returned, the keyboard report notified last *)
(* (if there is one) is eight zero bytes, and when release_media_keys has  *)
(* returned, the consumer report notified last is two zero bytes.          *)
C34_OneKeyAndZeroOnRelease ==
    /\ Len(kb_pressed_keys) <= 1
    /\ Len(kb_pressed_media_keys) <= 1
    /\ kb_last.op = "release_keys" =>
          /\ kb_pressed_keys = <<>>
          /\ report1 \in {Nothing, Some(Zeros(8))}
    /\ kb_last.op = "release_media_keys" =>
          /\ kb_pressed_media_keys = <<>>
          /\ report2 \in {Nothing, Some(Zeros(2))}

(* A send_key pressed a key on top of a key held, only that one was held   *)
(* afterwards, and the release of an earlier send_key then wrote zeros.    *)
C34_Witness ==
    /\ kb_last.op = "release_keys"
    /\ kb_sleeping.key = 1
    /\ report1 = Some(Zeros(8))
    /\ report2 = Some(<<0, 128>>)
    /\ Len(kb_pressed_media_keys) = 1

----------------------------------------------------------------------------
(* BleKeyboard: the connection monitor and the calls of the scene code     *)
(* around it.  m is the keyboard during one call: whether                  *)
(* _connection_monitor_task, agent and active_advertisement are set,       *)
(* whether the services are registered, and the peer as BlueZ reports it   *)
(* ("absent", "paired" or "connected").                                    *)
Mon == [task |-> kb_monitor_task, agent |-> kb_agent,
        advertisement |-> kb_advertisement, services |-> kb_services,
        peer |-> kb_peer]

(* BleKeyboard.advertise                                                   *)
kb_advertise(m) == [m EXCEPT !.agent = TRUE, !.advertisement = TRUE]

(* BleKeyboard.stop_advertising                                            *)
kb_stop_advertising(m) == [m EXCEPT !.advertisement = FALSE]

(* BleKeyboard.register_services                                           *)
register_services(m) == [m EXCEPT !.services = TRUE]

(* BleKeyboard.unregister_services: the services, the agent, the           *)
(* advertisement, and the monitor task is cancelled.                       *)
unregister_services(m) ==
    [m EXCEPT !.services = FALSE, !.agent = FALSE, !.advertisement = FALSE,
              !.task = FALSE]

(* BleKeyboard.connect: returns at once for a peer BlueZ does not have or  *)
(* that is connected; otherwise the advertisement is renewed and the       *)
(* peer connects in time or does not.                                      *)
kb_connect(m, answers) ==
    IF m.peer # "paired" THEN m
    ELSE [kb_advertise(kb_stop_advertising(m))
             EXCEPT !.peer = IF answers THEN "connected" ELSE @]

(* BleKeyboard.disconnect                                                  *)
kb_disconnect(m) == [m EXCEPT !.peer = IF @ = "connected" THEN "paired" ELSE @]

(* start_scene, lines 343-347.                                             *)
kb_swap_peer(m, answers) ==
    register_services(kb_connect(unregister_services(m), answers))

(* One pass of the loop of _connection_monitor.                            *)
kb_connection_monitor(m) ==
    IF m.peer # "connected" /\ ~m.advertisement THEN kb_advertise(m) ELSE m

MonReturn(m, op, scene, swapped) ==
    /\ kb_monitor_task' = m.task
    /\ kb_agent' = m.agent
    /\ kb_advertisement' = m.advertisement
    /\ kb_services' = m.services
    /\ kb_peer' = m.peer
    /\ kb_swapped' = swapped
    /\ mon_last' = [op |-> op, scene |-> scene]
    /\ UNCHANGED not_mon

(* start_scene of a scene with a Bluetooth peer / of one without.          *)
MonStartScene ==
    \E scene_id \in SceneIds, answers \in BOOLEAN :
        IF GetScene(scene_id).bluetooth_address # NoName /\ ~is_dev
        THEN MonReturn(kb_swap_peer(Mon, answers), "start_scene", scene_id,
                       TRUE)
        ELSE MonReturn(Mon, "start_scene", scene_id, kb_swapped)

(* stop_current_scene of the scene started last.                           *)
MonStopScene ==
    /\ mon_last.op = "start_scene"
    /\ IF GetScene(mon_last.scene).bluetooth_address # NoName /\ ~is_dev
       THEN MonReturn(kb_disconnect(Mon), "stop_current_scene",
                      mon_last.scene, kb_swapped)
       ELSE MonReturn(Mon, "stop_current_scene", mon_last.scene, kb_swapped)

(* The monitor task, while it exists, wakes up.                            *)
KbMonitorTick ==
    /\ kb_monitor_task
    /\ MonReturn(kb_connection_monitor(Mon), "monitor", None, kb_swapped)

KbStopAdvertising ==
    MonReturn(kb_stop_advertising(Mon), "stop_advertising", None, kb_swapped)

(* The central connects to the advertisement, drops the link, or is        *)
(* removed from BlueZ or paired again.                                     *)
CentralChanges ==
    \E peer \in {"absent", "paired", "connected"} :
        /\ peer # kb_peer
        /\ peer = "connected" => kb_advertisement /\ kb_peer = "paired"
        /\ MonReturn([Mon EXCEPT !.peer = peer], "central", None, kb_swapped)

NextMon ==
    \/ MonStartScene
    \/ MonStopScene
    \/ KbMonitorTick
    \/ KbStopAdvertising
    \/ CentralChanges

SpecMon == Init /\ [][NextMon]_vars

(* C35: after any sequence of scene starts and stops, also of scenes with  *)
(* a Bluetooth peer, the monitor task started at boot is still running.    *)
C35_MonitorKeepsRunning == kb_monitor_task

(* C35 as long as no scene with a Bluetooth peer has been started: the     *)
(* part of the property that the code keeps.                               *)
C35_RunningUntilPeerScene == ~kb_swapped => kb_monitor_task

(* After the start of a scene whose peer BlueZ does not have, the monitor  *)
(* is gone and nothing advertises although nothing is connected.           *)
C35_MonitorGone ==
    /\ mon_last.op = "start_scene"
    /\ ~kb_monitor_task
    /\ ~kb_advertisement
    /\ kb_peer = "absent"

----------------------------------------------------------------------------
(* The command table in force when the last call published its a-th event, *)
(* for a call that found no scene active and so the default table: the     *)
(* keymap loaded last before the event.                                    *)
TableAt(a) ==
    LET loads == {k \in Events("keymap") : k < a}
    IN IF loads = {} THEN "default"
       ELSE trace[CHOOSE k \in loads : \A j \in loads : j <= k].arg

(* The table is the default one without a scene and the keymap of the      *)
(* scene when scene_status is ACTIVE for a scene that names one.           *)
TableFollows(scene, scene_status, table) ==
    /\ scene = None => table = "default"
    /\ (/\ scene # None
        /\ scene_status = "ACTIVE"
        /\ GetScene(scene).keymap # NoName) =>
          table = GetScene(scene).keymap

(* C36: whenever no scene is active the command table is the default       *)
(* keymap, and whenever scene_status is ACTIVE for a scene that names a     *)
(* keymap the table is the keymap of that scene: between two calls and at   *)
(* every publication of the status within a call.                          *)
C36_TableFollowsScene ==
    /\ TableFollows(status.current_scene, status.scene_status, keymap)
    /\ last.pre.current_scene = None =>
          \A a \in Events("status") :
              TableFollows(trace[a].id, trace[a].arg, TableAt(a))

(* C36 for the states between two calls: the part of the property that the *)
(* code keeps.                                                             *)
C36_TableBetweenCalls ==
    TableFollows(status.current_scene, status.scene_status, keymap)

(* set_current_scene of a scene with a keymap, with no scene active, has   *)
(* published ACTIVE while the default table was still in force.            *)
C36_ActiveBeforeKeymap ==
    /\ last.op = "set_current_scene"
    /\ last.pre.current_scene = None
    /\ GetScene(last.arg).keymap # NoName
    /\ \E a \in PublishedAt("ACTIVE") : TableAt(a) = "default"
    /\ keymap = GetScene(last.arg).keymap

----------------------------------------------------------------------------
(* C37: a dispatch with neither from_start nor from_stop leaves the Status *)
(* (every DeviceState entry, the scene and its status) as it found it and  *)
(* publishes nothing, whatever the button, the group and the outcome of    *)
(* the transport of the command are.                                       *)
C37_PlainDispatchFrame ==
    (last.op = "send_command" /\ last.mode = "plain") =>
        /\ status = last.pre
        /\ Events("status") = {}
        /\ Events("device") = {}

(* A POWER_ON command of a device that was off has been sent, with neither *)
(* flag, while a scene was active.                                         *)
C37_Witness ==
    /\ Dispatched("plain")
    /\ LastCommand.button = "POWER_ON"
    /\ LastCommand.device_id # None
    /\ ~last.pre.devices[LastCommand.device_id].powered
    /\ last.pre.current_scene # None
    /\ Events("emit") # {}

----------------------------------------------------------------------------
(* The remote and the queue worker once more, with the button of every     *)
(* queued task kept beside the queue.                                      *)
beside_press ==
    <<agent_vars, hid_vars, adv_vars, conn_vars, rec_vars, rfl_vars,
      cmd_vars, ir_vars, ha_vars, cache_vars, kbd_vars, mon_vars, ovl_vars,
      reg_vars>>

(* RfManager reports a press to handle_button_press.                       *)
ButtonPressed ==
    /\ Len(queue) < MaxQueue
    /\ \E b \in Buttons :
          /\ queue' = handle_button_press(queue, b)
          /\ queue_buttons' = IF pressed_task(b) # NoTask
                              THEN Append(queue_buttons, b)
                              ELSE queue_buttons
          /\ rf' = [kind |-> "press", button |-> b, task |-> pressed_task(b)]
    /\ UNCHANGED <<status, keymap, bt_peer, trace, exc, last, again,
                   held, running, http, ran_button>>
    /\ UNCHANGED beside_press

(* The worker of the queue runs the oldest task.                           *)
ButtonTaskRuns ==
    /\ queue # <<>>
    /\ running = NoTask
    /\ \E reach \in BOOLEAN :
          Return(run_task(Ctl(reach), Head(queue)),
                 Queued(Head(queue).op, Head(queue).arg))
    /\ queue' = Tail(queue)
    /\ queue_buttons' = Tail(queue_buttons)
    /\ ran_button' = Head(queue_buttons)
    /\ UNCHANGED <<running, http, rf>>
    /\ UNCHANGED beside_press

NextPress ==
    \/ ButtonPressed
    \/ ButtonTaskRuns

SpecPress == Init /\ [][NextPress]_vars

(* C38: a command emitted for a press is the command that the table active *)
(* when it is emitted binds to the button pressed, also for a press that   *)
(* was received while a scene transition waited in the queue.              *)
C38_EmittedFromActiveTable ==
    (/\ last.via = "queue"
     /\ last.op = "send_command"
     /\ Events("emit") # {}) =>
        Get(KeymapFile(keymap), ran_button) = last.arg

(* C38 for a press whose task is run under the table it was received       *)
(* under.                                                                  *)
C38_BoundAtPress ==
    (/\ last.via = "queue"
     /\ last.op = "send_command"
     /\ Events("emit") # {}) =>
        \E name \in {"default", "b"} :
            Get(KeymapFile(name), ran_button) = last.arg

(* Play was pressed while the stop of scene B waited in the queue: the     *)
(* command that keymap b binds to Play was emitted after the stop, under   *)
(* the default table, which binds nothing to Play.                         *)
C38_OutgoingBinding ==
    /\ last.via = "queue"
    /\ last.op = "send_command"
    /\ Events("emit") # {}
    /\ ran_button = "Play"
    /\ keymap = "default"
    /\ last.arg = KeymapFile("b")["Play"]
    /\ Get(KeymapFile(keymap), ran_button) = None

----------------------------------------------------------------------------
(* PairingAgentBase with agent callbacks that overlap.  waiters[c] is the  *)
(* call c of _wait_for_confirmation: where it is, its device path and its  *)
(* future; kept_future[path] is the call whose future                      *)
(* pending_confirmations[path] holds, 0 for no entry; overlapped tells     *)
(* whether a call has begun to wait for a path another call waited for.    *)
AwaitsVerdict(w, c, path) ==
    /\ w[c].pc = "waiting"
    /\ w[c].path = path
    /\ w[c].future = "pending"

(* _wait_for_confirmation, lines 49-50: a new future is stored under the   *)
(* device path, over whatever is there.                                    *)
wait_for_confirmation(kept, c, device_path) ==
    [kept EXCEPT ![device_path] = c]

(* _wait_for_confirmation, lines 63-65: the finally clause deletes the     *)
(* entry of the device path.                                               *)
wait_cleanup(kept, device_path) == [kept EXCEPT ![device_path] = 0]

(* confirm_from_api: the future stored under the path gets the result      *)
(* unless it is done; no entry is a ValueError.                            *)
confirm_from_api(w, kept, device_path, confirmed) ==
    IF kept[device_path] = 0 THEN w
    ELSE IF w[kept[device_path]].future # "pending" THEN w
         ELSE [w EXCEPT ![kept[device_path]].future =
                  IF confirmed THEN "true" ELSE "false"]

confirm_outcome(w, kept, device_path) ==
    IF kept[device_path] = 0 THEN "ValueError"
    ELSE IF w[kept[device_path]].future # "pending" THEN "done"
         ELSE "delivered"

(* An agent method reaches _wait_for_confirmation(device).                 *)
CallbackWaits ==
    \E c \in Callbacks2, path \in Paths :
        /\ waiters[c].pc = "idle"
        /\ waiters' = [waiters EXCEPT ![c] =
               [pc |-> "waiting", path |-> path, future |-> "pending"]]
        /\ kept_future' = wait_for_confirmation(kept_future, c, path)
        /\ overlapped' = (\/ overlapped
                          \/ \E d \in Callbacks2 :
                                /\ waiters[d].pc = "waiting"
                                /\ waiters[d].path = path)
        /\ UNCHANGED confirm_reply
        /\ UNCHANGED not_ovl

(* POST /pair/confirm                                                      *)
ConfirmFromApi ==
    \E path \in Paths, confirmed \in BOOLEAN :
        /\ waiters' = confirm_from_api(waiters, kept_future, path, confirmed)
        /\ confirm_reply' =
               [path |-> path,
                waiting |-> \E c \in Callbacks2 :
                               AwaitsVerdict(waiters, c, path),
                outcome |-> confirm_outcome(waiters, kept_future, path)]
        /\ UNCHANGED <<kept_future, overlapped>>
        /\ UNCHANGED not_ovl

(* asyncio.wait_for gives up on the future of a call.                      *)
WaitTimesOut ==
    \E c \in Callbacks2 :
        /\ waiters[c].pc = "waiting"
        /\ waiters[c].future = "pending"
        /\ waiters' = [waiters EXCEPT ![c].future = "cancelled"]
        /\ UNCHANGED <<kept_future, confirm_reply, overlapped>>
        /\ UNCHANGED not_ovl

(* A call resumes with its result or after its timeout: the finally        *)
(* clause, and the agent method ends.                                      *)
WaitEnds ==
    \E c \in Callbacks2 :
        /\ waiters[c].pc = "waiting"
        /\ waiters[c].future # "pending"
        /\ kept_future' = wait_cleanup(kept_future, waiters[c].path)
        /\ waiters' = [waiters EXCEPT ![c] = NoWait]
        /\ UNCHANGED <<confirm_reply, overlapped>>
        /\ UNCHANGED not_ovl

NextOvl ==
    \/ CallbackWaits
    \/ ConfirmFromApi
    \/ WaitTimesOut
    \/ WaitEnds

SpecOvl == Init /\ [][NextOvl]_vars

(* C39: while a callback awaits a verdict for a device path, the entry of  *)
(* the path is there and is the future of a callback that awaits one (the  *)
(* cleanup of another callback has not removed it), and a confirm for the  *)
(* path made while a callback awaits a verdict is delivered.               *)
C39_OverlappingCallbacks ==
    /\ \A path \in Paths :
          (\E c \in Callbacks2 : AwaitsVerdict(waiters, c, path)) =>
              /\ kept_future[path] # 0
              /\ AwaitsVerdict(waiters, kept_future[path], path)
    /\ confirm_reply.waiting => confirm_reply.outcome = "delivered"

(* C39 as long as no callback has begun to wait for a device path that     *)
(* another callback waited for: the part of the property that the code     *)
(* keeps.                                                                  *)
C39_DistinctPaths == ~overlapped => C39_OverlappingCallbacks

(* A confirm for a path was answered with ValueError while a callback      *)
(* awaited a verdict for it.                                               *)
C39_ConfirmLost ==
    /\ confirm_reply.waiting
    /\ confirm_reply.outcome = "ValueError"
    /\ \E c \in Callbacks2 : AwaitsVerdict(waiters, c, confirm_reply.path)

----------------------------------------------------------------------------
(* BluetoothManager.advertise and stop_advertising, await by await.  The   *)
(* advertisements made are numbered; registered_ads are those BlueZ holds, *)
(* active_ad is the one active_advertisement refers to (0 for None), and   *)
(* adv_calls[c] is the call of caller c: where it waits, the               *)
(* advertisement it unregisters or registers, and whether it goes on to    *)
(* advertise when the advertisement has been stopped.                      *)
MaxAds == 3

(* stop_advertising up to its await of unregister(), for the call c.       *)
stop_begin(calls2, c, ad, then) ==
    [calls2 EXCEPT ![c] = [pc |-> "unregister", ad |-> ad, then |-> then]]

(* advertise after the advertisement has been stopped: the profile is      *)
(* looked up, which raises, or the call awaits the adapter for the alias.  *)
advertise_lookup(calls2, c, found) ==
    [calls2 EXCEPT ![c] = IF found THEN [NoAdvCall EXCEPT !.pc = "alias"]
                          ELSE NoAdvCall]

(* advertise is called: with an advertisement it stops it first.           *)
AdvertiseBegins ==
    \E c \in AdvCallers, found \in BOOLEAN :
        /\ adv_calls[c].pc = "idle"
        /\ made_ads < MaxAds
        /\ adv_calls' = IF active_ad # 0
                        THEN stop_begin(adv_calls, c, active_ad,
                                        IF found THEN "alias" ELSE "raise")
                        ELSE advertise_lookup(adv_calls, c, found)
        /\ UNCHANGED <<registered_ads, active_ad, made_ads>>
        /\ UNCHANGED not_reg

(* stop_advertising is called by the API.                                  *)
StopAdvertisingBegins ==
    /\ adv_calls["api"].pc = "idle"
    /\ active_ad # 0
    /\ adv_calls' = stop_begin(adv_calls, "api", active_ad, "none")
    /\ UNCHANGED <<registered_ads, active_ad, made_ads>>
    /\ UNCHANGED not_reg

(* unregister() returns or raises; the finally clause sets                 *)
(* active_advertisement to None; advertise goes on with the profile.       *)
UnregisterReturns ==
    \E c \in AdvCallers, ok \in BOOLEAN :
        /\ adv_calls[c].pc = "unregister"
        /\ registered_ads' = IF ok THEN registered_ads \ {adv_calls[c].ad}
                             ELSE registered_ads
        /\ active_ad' = 0
        /\ adv_calls' = IF adv_calls[c].then = "none" THEN
                            [adv_calls EXCEPT ![c] = NoAdvCall]
                        ELSE advertise_lookup(adv_calls, c,
                                              adv_calls[c].then = "alias")
        /\ UNCHANGED made_ads
        /\ UNCHANGED not_reg

(* The alias has been set or not: the Advertisement is made and assigned   *)
(* to active_advertisement, and the call awaits its register().            *)
AdvertisementMade ==
    \E c \in AdvCallers :
        /\ adv_calls[c].pc = "alias"
        /\ made_ads' = made_ads + 1
        /\ active_ad' = made_ads + 1
        /\ adv_calls' = [adv_calls EXCEPT ![c] =
               [pc |-> "register", ad |-> made_ads + 1, then |-> "none"]]
        /\ UNCHANGED registered_ads
        /\ UNCHANGED not_reg

(* register() returns or raises.                                           *)
RegisterReturns ==
    \E c \in AdvCallers, ok \in BOOLEAN :
        /\ adv_calls[c].pc = "register"
        /\ registered_ads' = IF ok THEN registered_ads \cup {adv_calls[c].ad}
                             ELSE registered_ads
        /\ adv_calls' = [adv_calls EXCEPT ![c] = NoAdvCall]
        /\ UNCHANGED <<active_ad, made_ads>>
        /\ UNCHANGED not_reg

NextReg ==
    \/ AdvertiseBegins
    \/ StopAdvertisingBegins
    \/ UnregisterReturns
    \/ AdvertisementMade
    \/ RegisterReturns

SpecReg == Init /\ [][NextReg]_vars

(* No call of advertise or stop_advertising is in flight.                  *)
AdvQuiet == \A c \in AdvCallers : adv_calls[c].pc = "idle"

(* C40: BlueZ never holds more than one advertisement of the manager, and  *)
(* whenever no call is in flight active_advertisement refers to the        *)
(* registered advertisement if there is one and to none otherwise, also    *)
(* for calls that interleave and for registrations and profile lookups     *)
(* that fail.                                                              *)
C40_OneAdvertisement ==
    /\ Cardinality(registered_ads) <= 1
    /\ AdvQuiet => (registered_ads = IF active_ad = 0 THEN {} ELSE {active_ad})

(* Two advertise calls interleaved and both registered: BlueZ holds two    *)
(* advertisements and the manager refers to one of them.                   *)
C40_TwoRegistered ==
    /\ AdvQuiet
    /\ Cardinality(registered_ads) = 2
    /\ active_ad \in registered_ads
====
